---- MODULE Spec2Model ----
(***************************************************************************)
(* A model of getangry/sqld: the WHERE condition builder (sqlcdynamic.go), *)
(* the annotation processor (annotations.go), the query filters            *)
(* (queryfilter.go), the sort parser and the transaction helper            *)
(* (orderby.go), the cursor codec and the paginated query                  *)
(* (reflection_scanner.go) and the enhanced queries.                       *)
(*                                                                         *)
(* SQL text is a sequence of tokens.  A token is a record [k, n, v]:       *)
(*   k  the token's text ("$" for a numbered placeholder, "?" for the      *)
(*      positional marker, the text itself for everything else; a blank    *)
(*      and a newline are tokens of their own, so that two SQL strings are *)
(*      equal exactly when their token sequences are);                     *)
(*   n  the decimal number that follows a "$" (0 for every other token);   *)
(*   v  a history field: the value that was handed to the call that        *)
(*      emitted the placeholder (Nil for every other token).  The code     *)
(*      never reads it; the properties use it to say which value a         *)
(*      placeholder is bound to.                                           *)
(***************************************************************************)
EXTENDS Integers, Sequences, FiniteSets, TLC

VARIABLES
    stack,      \* the WhereBuilders under construction, one run per dialect, all three
                \* given the same calls: stack[d][1] is the caller's builder of dialect d,
                \* stack[d][i+1] the sub-builder of an Or callback running on stack[d][i]
    budget,     \* number of builder calls the run may still make (bounds the run)
    absent,     \* history: TRUE iff the last step was a builder call given an absent value
    rawShort,   \* history: TRUE iff some Raw call was given more parameters than its
                \* fragment holds "?" markers
    pq,         \* the last ProcessQuery call: its inputs and its results
    call        \* the last call of one of the package's other functions
                \* (CombineConditions, the filter and sort parsers, the cursor codec,
                \* WithTransaction, ...): its inputs, its position and its results

vars == <<stack, budget, absent, rawShort, pq, call>>

----------------------------------------------------------------------------
(* Bounds of the model *)

MaxCalls == 2       \* builder calls in one run of Spec
MaxOrDepth == 1     \* nesting depth of Or callbacks
MaxPQCalls == 1     \* builder calls before ProcessQuery in SpecPQ
MaxPre == 1         \* pre-existing template parameters
MaxOrCalls == 4     \* builder calls in one run of SpecOr
MaxCombineCalls == 3 \* builder calls in one run of SpecCombine
MaxBuilders == 3    \* builders handed to CombineConditions
MaxTwinCalls == 2   \* builder calls in one run of SpecTwin
MaxKeys == 3        \* keys of one query in SpecFilter
MaxSortLen == 2     \* sort fields of one list in SpecSortParse and SpecSort
MaxId == 3          \* the ids of rows in SpecCursor, beside the ones at the int32 limits
MaxOps == 2         \* operations handed to RunInTransaction in SpecTx
MaxRows == 4        \* rows of the table in SpecPaginated
MaxLimit == 3       \* the limit of a page in SpecPaginated
MaxPlaceholders == 11   \* placeholders of the text given to AdjustSQL in SpecAdjust
MaxStartIndex == 3  \* the offset given to AdjustSQL in SpecAdjust
MaxEnhancedCalls == 2   \* builder calls before SearchQuery or PaginationQuery in SpecEnhanced
MaxColumns == 2     \* search columns in SpecEnhanced
MaxApplied == 2     \* filters handed to ApplyFiltersToBuilder in SpecApply

----------------------------------------------------------------------------
(* Values: Go's interface{} values, as far as the code tells them apart *)

Nil == [t |-> "nil", x |-> 0]
IntV(i) == [t |-> "int", x |-> i]
StrV(i) == [t |-> "str", x |-> i]      \* StrV(0) is the empty string ""

(* Dialect constants *)
Postgres == "postgres"
MySQL == "mysql"
SQLite == "sqlite"
Dialects == {Postgres, MySQL, SQLite}

----------------------------------------------------------------------------
(* Tokens and the string functions the code uses *)

Txt(s) == [k |-> s, n |-> 0, v |-> Nil]
Dollar(i) == [k |-> "$", n |-> i, v |-> Nil]
Qmark == [k |-> "?", n |-> 0, v |-> Nil]
SP == Txt(" ")
NL == Txt("\n")

\* history only: the placeholder token tok, bound to value val
Bind(tok, val) == [tok EXCEPT !.v = val]

\* the text of a token sequence without the history field
Strip(sql) == [i \in 1..Len(sql) |-> [sql[i] EXCEPT !.v = Nil]]

\* index of the first token of s with text key, 0 if there is none
IndexK(s, key) ==
    IF \E i \in 1..Len(s) : s[i].k = key
    THEN CHOOSE i \in 1..Len(s) : s[i].k = key /\ \A j \in 1..(i-1) : s[j].k # key
    ELSE 0

\* strings.Contains(s, key)
Contains(s, key) == IndexK(s, key) # 0

\* strings.Count(s, key)
CountK(s, key) == Cardinality({i \in 1..Len(s) : s[i].k = key})

\* strings.Replace(s, key, new, 1)
ReplaceFirst(s, key, new) ==
    LET i == IndexK(s, key)
    IN IF i = 0 THEN s ELSE SubSeq(s, 1, i-1) \o new \o SubSeq(s, i+1, Len(s))

\* strings.Join(parts, sep)
RECURSIVE Join(_, _)
Join(parts, sep) ==
    IF Len(parts) = 0 THEN <<>>
    ELSE IF Len(parts) = 1 THEN parts[1]
    ELSE parts[1] \o sep \o Join(Tail(parts), sep)

----------------------------------------------------------------------------
(* WhereBuilder, sqlcdynamic.go *)

NewWhereBuilder(dialect) ==
    [conditions |-> <<>>, params |-> <<>>, dialect |-> dialect, paramIndex |-> 0]

\* a placeholder() that renders the counter without incrementing it
placeholderStale(w) ==
    [w |-> w, s |-> IF w.dialect = Postgres THEN Dollar(w.paramIndex + 1) ELSE Qmark]

\* placeholder(): increments the counter and renders the dialect's placeholder;
\* the result is the builder after the call and the string returned
placeholder(w) ==
    LET idx == w.paramIndex + 1
    IN [w |-> [w EXCEPT !.paramIndex = idx],
        s |-> IF w.dialect = Postgres THEN Dollar(idx) ELSE Qmark]

addCondition(w, sql, param) ==
    [w EXCEPT !.conditions = Append(@, [SQL |-> sql, ParamCount |-> 1]),
              !.params = Append(@, param)]

addConditionWithParams(w, sql, params) ==
    [w EXCEPT !.conditions = Append(@, [SQL |-> sql, ParamCount |-> Len(params)]),
              !.params = @ \o params]

\* a comparison that does not skip the absent value
CompareNoSkip(w, column, op, value) ==
    LET p == placeholder(w)
    IN addCondition(p.w, <<Txt(column), SP, Txt(op), SP, Bind(p.s, value)>>, value)

\* column <op> placeholder, shared by Equal, NotEqual, GreaterThan, LessThan
Compare(w, column, op, value) ==
    IF value = Nil THEN w
    ELSE LET p == placeholder(w)
         IN addCondition(p.w, <<Txt(column), SP, Txt(op), SP, Bind(p.s, value)>>, value)

Equal(w, column, value) == Compare(w, column, "=", value)
NotEqual(w, column, value) == Compare(w, column, "!=", value)
GreaterThan(w, column, value) == Compare(w, column, ">", value)
LessThan(w, column, value) == Compare(w, column, "<", value)

\* a Like that writes the value into the text, between quotes
LikeInline(w, column, value) ==
    IF value = StrV(0) THEN w
    ELSE [w EXCEPT !.conditions =
            Append(@, [SQL |-> <<Txt(column), SP, Txt("LIKE"), SP, Txt("'"),
                                 [k |-> "literal", n |-> value.x, v |-> Nil], Txt("'")>>,
                       ParamCount |-> 0])]

Like(w, column, value) ==
    IF value = StrV(0) THEN w
    ELSE LET p == placeholder(w)
         IN addCondition(p.w, <<Txt(column), SP, Txt("LIKE"), SP, Bind(p.s, value)>>, value)

\* an ILike whose fallback leaves the placeholder outside LOWER()
ILikeBareArg(w, column, value) ==
    IF value = StrV(0) THEN w
    ELSE LET p == placeholder(w)
         IN IF w.dialect = Postgres
            THEN addCondition(p.w, <<Txt(column), SP, Txt("ILIKE"), SP, Bind(p.s, value)>>, value)
            ELSE addCondition(p.w, <<Txt("LOWER("), Txt(column), Txt(")"), SP, Txt("LIKE"), SP,
                                     Bind(p.s, value)>>, value)

ILike(w, column, value) ==
    IF value = StrV(0) THEN w
    ELSE LET p == placeholder(w)
         IN IF w.dialect = Postgres
            THEN addCondition(p.w, <<Txt(column), SP, Txt("ILIKE"), SP, Bind(p.s, value)>>, value)
            ELSE addCondition(p.w, <<Txt("LOWER("), Txt(column), Txt(")"), SP, Txt("LIKE"), SP,
                                     Txt("LOWER("), Bind(p.s, value), Txt(")")>>, value)

\* the loop of In: one placeholder() per value, joined with ", "
RECURSIVE InPlaceholders(_, _)
InPlaceholders(w, values) ==
    IF Len(values) = 0 THEN [w |-> w, s |-> <<>>]
    ELSE LET p == placeholder(w)
             rest == InPlaceholders(p.w, Tail(values))
         IN [w |-> rest.w,
             s |-> <<Bind(p.s, values[1])>>
                   \o (IF Len(values) = 1 THEN <<>> ELSE <<Txt(","), SP>>) \o rest.s]

In(w, column, values) ==
    IF Len(values) = 0 THEN w
    ELSE LET ps == InPlaceholders(w, values)
         IN [ps.w EXCEPT
               !.conditions = Append(@, [SQL |-> <<Txt(column), SP, Txt("IN"), SP, Txt("(")>>
                                                 \o ps.s \o <<Txt(")")>>,
                                         ParamCount |-> Len(values)]),
               !.params = @ \o values]

Between(w, column, start, end) ==
    IF start = Nil \/ end = Nil THEN w
    ELSE LET p1 == placeholder(w)
             p2 == placeholder(p1.w)
         IN addConditionWithParams(p2.w,
                <<Txt(column), SP, Txt("BETWEEN"), SP, Bind(p1.s, start),
                  SP, Txt("AND"), SP, Bind(p2.s, end)>>,
                <<start, end>>)

IsNull(w, column) ==
    [w EXCEPT !.conditions =
        Append(@, [SQL |-> <<Txt(column), SP, Txt("IS"), SP, Txt("NULL")>>, ParamCount |-> 0])]

IsNotNull(w, column) ==
    [w EXCEPT !.conditions =
        Append(@, [SQL |-> <<Txt(column), SP, Txt("IS"), SP, Txt("NOT"), SP, Txt("NULL")>>,
                   ParamCount |-> 0])]

\* processRawSQL: on Postgres one counter step and one Replace of the first "?" per
\* parameter; on the other dialects the counter alone moves.  params is passed where
\* the code passes len(params), for the history field of the placeholders.
RECURSIVE RawLoop(_, _, _)
RawLoop(w, result, params) ==
    IF Len(params) = 0 THEN [w |-> w, s |-> result]
    ELSE LET idx == w.paramIndex + 1
         IN RawLoop([w EXCEPT !.paramIndex = idx],
                    ReplaceFirst(result, "?", <<Bind(Dollar(idx), params[1])>>),
                    Tail(params))

\* the fragment as written, its q-th "?" carrying in the history field the q-th
\* parameter, which is the one the driver binds to it
RawPositional(sql, params) ==
    [i \in 1..Len(sql) |->
        LET q == CountK(SubSeq(sql, 1, i), "?")
        IN IF sql[i].k = "?" /\ q <= Len(params) THEN Bind(sql[i], params[q]) ELSE sql[i]]

processRawSQL(w, sql, params) ==
    IF w.dialect = Postgres
    THEN RawLoop(w, sql, params)
    ELSE [w |-> [w EXCEPT !.paramIndex = @ + Len(params)], s |-> RawPositional(sql, params)]

Raw(w, sql, params) ==
    LET p == processRawSQL(w, sql, params)
    IN [p.w EXCEPT !.conditions = Append(@, [SQL |-> p.s, ParamCount |-> Len(params)]),
                   !.params = @ \o params]

\* the SQL of every condition, in order
CondSQL(w) == [i \in 1..Len(w.conditions) |-> w.conditions[i].SQL]

\* an Or that does not take the sub-builder's counter back
OrMergeStale(w, sub) ==
    IF Len(sub.conditions) > 0
    THEN [w EXCEPT
            !.conditions = Append(@, [SQL |-> <<Txt("(")>>
                                              \o Join([i \in 1..Len(sub.conditions) |->
                                                         sub.conditions[i].SQL],
                                                      <<SP, Txt("OR"), SP>>)
                                              \o <<Txt(")")>>,
                                      ParamCount |-> Len(sub.params)]),
            !.params = @ \o sub.params]
    ELSE w

\* Or, after fn(subBuilder) has returned: sub is the sub-builder
OrMerge(w, sub) ==
    IF Len(sub.conditions) > 0
    THEN [w EXCEPT
            !.conditions = Append(@, [SQL |-> <<Txt("(")>>
                                              \o Join(CondSQL(sub), <<SP, Txt("OR"), SP>>)
                                              \o <<Txt(")")>>,
                                      ParamCount |-> Len(sub.params)]),
            !.params = @ \o sub.params,
            !.paramIndex = sub.paramIndex]
    ELSE w

\* an Or whose sub-builder starts counting at zero
OrSubZero(w) == NewWhereBuilder(w.dialect)

\* Or, before fn runs: the sub-builder handed to fn
OrSub(w) == [NewWhereBuilder(w.dialect) EXCEPT !.paramIndex = w.paramIndex]

\* Build(): the SQL and the parameters
Build(w) ==
    IF Len(w.conditions) = 0 THEN [sql |-> <<>>, params |-> <<>>]
    ELSE [sql |-> Join(CondSQL(w), <<SP, Txt("AND"), SP>>), params |-> w.params]

HasConditions(w) == Len(w.conditions) > 0

----------------------------------------------------------------------------
(* OrderByBuilder, orderby.go *)

SortAsc == "ASC"
SortDesc == "DESC"

NewOrderByBuilder == [fields |-> <<>>]

\* Add(field, direction)
Add(ob, field, direction) ==
    [ob EXCEPT !.fields = Append(@, [Field |-> field, Direction |-> direction])]

HasFields(ob) == Len(ob.fields) > 0

\* a Build() that forgets the direction
OrderByBuildNoDir(ob) ==
    Join([i \in 1..Len(ob.fields) |-> <<Txt(ob.fields[i].Field)>>], <<Txt(","), SP>>)

\* Build(): "field DIR" per field, joined with ", "
OrderByBuild(ob) ==
    Join([i \in 1..Len(ob.fields) |->
            <<Txt(ob.fields[i].Field), SP, Txt(ob.fields[i].Direction)>>],
         <<Txt(","), SP>>)

----------------------------------------------------------------------------
(* AnnotationProcessor, annotations.go *)

WhereMarker == "/* sqld:where */"
CursorMarker == "/* sqld:cursor */"
OrderByMarker == "/* sqld:orderby */"
LimitMarker == "/* sqld:limit */"
Markers == {WhereMarker, CursorMarker, OrderByMarker, LimitMarker}

\* the tokens that contain the character "/"
HasSlash(tok) == tok.k \in Markers

\* the nil pointers a caller may pass
NilWhere == [nil |-> TRUE]
NilCursor == [nil |-> TRUE]
NilOrderBy == [nil |-> TRUE]

\* adjustParameterPlaceholders: every match of \$(\d+) is rewritten to $(num+offset)
adjustParameterPlaceholders(sql, offset) ==
    [i \in 1..Len(sql) |->
        IF sql[i].k = "$" THEN [sql[i] EXCEPT !.n = @ + offset] ELSE sql[i]]

\* the regular expression ORDER BY ([^/]*)(/\* sqld:orderby \*/) matched at token i:
\* the end of the match (the index of the marker), 0 if there is no match at i.
\* After "ORDER BY" and one blank, [^/]* runs up to the first token holding a "/",
\* which has to be the marker.
OrderByMatchEnd(sql, i) ==
    IF /\ sql[i].k = "ORDER BY"
       /\ i + 1 <= Len(sql)
       /\ sql[i+1] = SP
       /\ \E j \in (i+2)..Len(sql) : HasSlash(sql[j])
    THEN LET j == CHOOSE j \in (i+2)..Len(sql) :
                      HasSlash(sql[j]) /\ \A m \in (i+2)..(j-1) : ~HasSlash(sql[m])
         IN IF sql[j].k = OrderByMarker THEN j ELSE 0
    ELSE 0

\* re.MatchString(sql)
OrderByMatches(sql) == \E i \in 1..Len(sql) : OrderByMatchEnd(sql, i) # 0

\* re.ReplaceAllString(sql, repl): every match, leftmost first, is replaced
RECURSIVE OrderByReplaceAll(_, _)
OrderByReplaceAll(sql, repl) ==
    IF ~OrderByMatches(sql) THEN sql
    ELSE LET i == CHOOSE i \in 1..Len(sql) :
                      /\ OrderByMatchEnd(sql, i) # 0
                      /\ \A m \in 1..(i-1) : OrderByMatchEnd(sql, m) = 0
             j == OrderByMatchEnd(sql, i)
         IN SubSeq(sql, 1, i-1) \o repl \o OrderByReplaceAll(SubSeq(sql, j+1, Len(sql)), repl)

\* the cursor condition, "(created_at < $a OR (created_at = $a AND id < $b))"
CursorCondition(cursor, a, b) ==
    <<Txt("("), Txt("created_at"), SP, Txt("<"), SP, Bind(Dollar(a), cursor.CreatedAt),
      SP, Txt("OR"), SP, Txt("("), Txt("created_at"), SP, Txt("="), SP,
      Bind(Dollar(a), cursor.CreatedAt), SP, Txt("AND"), SP, Txt("id"), SP, Txt("<"), SP,
      Bind(Dollar(b), cursor.ID), Txt(")"), Txt(")")>>

\* ProcessQuery, the orderby annotation (lines 79-94)
ProcessOrderBy(sql, orderBy) ==
    IF Contains(sql, OrderByMarker)
    THEN IF orderBy # NilOrderBy /\ HasFields(orderBy)
         THEN IF OrderByMatches(sql)
              THEN OrderByReplaceAll(sql, <<Txt("ORDER BY"), SP>> \o OrderByBuild(orderBy) \o <<SP>>)
              ELSE sql
         ELSE ReplaceFirst(sql, OrderByMarker, <<>>)
    ELSE sql

\* a limit annotation that takes limit 0 for a limit
ProcessLimitZero(dialect, sql, params, paramIndex, limit) ==
    IF limit >= 0 /\ Contains(sql, LimitMarker)
    THEN [sql |-> ReplaceFirst(sql, LimitMarker,
                     <<SP, Txt("LIMIT"), SP,
                       Bind(IF dialect = Postgres THEN Dollar(paramIndex + 1) ELSE Qmark,
                            IntV(limit))>>),
          params |-> Append(params, IntV(limit))]
    ELSE [sql |-> ReplaceFirst(sql, LimitMarker, <<>>), params |-> params]

\* ProcessQuery, the limit annotation (lines 96-110)
ProcessLimit(dialect, sql, params, paramIndex, limit) ==
    IF limit > 0 /\ Contains(sql, LimitMarker)
    THEN [sql |-> ReplaceFirst(sql, LimitMarker,
                     <<SP, Txt("LIMIT"), SP,
                       Bind(IF dialect = Postgres THEN Dollar(paramIndex + 1) ELSE Qmark,
                            IntV(limit))>>),
          params |-> Append(params, IntV(limit))]
    ELSE [sql |-> ReplaceFirst(sql, LimitMarker, <<>>), params |-> params]

\* ProcessQuery, in the order of the code: the result is [sql, params]
ProcessQuery(dialect, originalSQL, where, cursor, orderBy, limit, originalParams) ==
    LET useCursor == cursor # NilCursor /\ Contains(originalSQL, CursorMarker)
        n0 == Len(originalParams)
        \* cursor condition
        conds1 == IF useCursor THEN <<CursorCondition(cursor, n0 + 1, n0 + 2)>> ELSE <<>>
        params1 == IF useCursor THEN originalParams \o <<cursor.CreatedAt, cursor.ID>>
                   ELSE originalParams
        n1 == IF useCursor THEN n0 + 2 ELSE n0
        \* dynamic where conditions
        useWhere == where # NilWhere /\ HasConditions(where)
        built == IF useWhere THEN Build(where) ELSE [sql |-> <<>>, params |-> <<>>]
        conds2 == IF useWhere
                  THEN Append(conds1, adjustParameterPlaceholders(built.sql, n1))
                  ELSE conds1
        params2 == params1 \o built.params
        n2 == n1 + Len(built.params)
        \* where annotation
        sql1 == IF Len(conds2) > 0 /\ Contains(originalSQL, WhereMarker)
                THEN ReplaceFirst(originalSQL, WhereMarker,
                                  <<SP, Txt("AND"), SP>> \o Join(conds2, <<SP, Txt("AND"), SP>>))
                ELSE ReplaceFirst(originalSQL, WhereMarker, <<>>)
        \* cursor annotation
        sql2 == ReplaceFirst(sql1, CursorMarker, <<>>)
    IN ProcessLimit(dialect, ProcessOrderBy(sql2, orderBy), params2, n2, limit)

----------------------------------------------------------------------------
(* CombineConditions, sqlcdynamic.go *)

\* the decimal digits of i are the first digits of n: the text "$i" is a prefix of
\* the text "$n"
RECURSIVE DecPrefix(_, _)
DecPrefix(i, n) ==
    IF n = i THEN TRUE ELSE IF n < 10 THEN FALSE ELSE DecPrefix(i, n \div 10)

\* the number written after "$" once the leading digits i of n are replaced by new
RECURSIVE DecReplace(_, _, _)
DecReplace(i, new, n) ==
    IF n = i THEN new ELSE (DecReplace(i, new, n \div 10) * 10) + (n % 10)

\* strings.Replace(sql, "$i", "$new", 1): the first place in the text where "$i"
\* stands, be it a placeholder of its own or the beginning of a longer one
ReplaceDollarFirst(sql, i, new) ==
    LET hits == {j \in 1..Len(sql) : sql[j].k = "$" /\ DecPrefix(i, sql[j].n)}
    IN IF hits = {} THEN sql
       ELSE LET j == CHOOSE h \in hits : \A g \in hits : h <= g
            IN [sql EXCEPT ![j].n = DecReplace(i, new, @)]

\* the loop over i = from..n that replaces "$i" by "$(base+i)"
RECURSIVE CombineRenumber(_, _, _, _)
CombineRenumber(adjustedSQL, from, n, base) ==
    IF from > n THEN adjustedSQL
    ELSE CombineRenumber(ReplaceDollarFirst(adjustedSQL, from, base + from), from + 1, n, base)

\* one pass of the loop over the builders
CombineStep(combined, builder) ==
    IF builder # NilWhere /\ HasConditions(builder)
    THEN LET b == Build(builder)
         IN IF combined.dialect = Postgres
            THEN [combined EXCEPT
                    !.paramIndex = @ + Len(b.params),
                    !.conditions =
                        Append(@, [SQL |-> CombineRenumber(b.sql, 1, Len(b.params),
                                                           combined.paramIndex),
                                   ParamCount |-> Len(b.params)]),
                    !.params = @ \o b.params]
            ELSE Raw(combined, b.sql, b.params)
    ELSE combined

RECURSIVE CombineLoop(_, _)
CombineLoop(combined, builders) ==
    IF Len(builders) = 0 THEN combined
    ELSE CombineLoop(CombineStep(combined, builders[1]), Tail(builders))

CombineConditions(dialect, builders) == CombineLoop(NewWhereBuilder(dialect), builders)

----------------------------------------------------------------------------
(* Sort parsing, orderby.go.  The text of a sort specification is the sequence *)
(* of its lexemes: field names, direction words, ":", ",", "-", "+" and " ".  *)
(* The field of a parsed item is text too.                                    *)

\* strings.ToUpper, on the direction words of the model
ToUpper(s) ==
    CASE s = "desc" -> "DESC"
      [] s = "asc" -> "ASC"
      [] s = "descending" -> "DESCENDING"
      [] s = "d" -> "D"
      [] OTHER -> s

\* strings.TrimSpace: from the first lexeme that is not a blank to the last
TrimSpace(s) ==
    LET inked == {i \in 1..Len(s) : s[i] # " "}
    IN IF inked = {} THEN <<>>
       ELSE SubSeq(s, CHOOSE i \in inked : \A j \in inked : i <= j,
                      CHOOSE i \in inked : \A j \in inked : j <= i)

\* strings.Split(s, sep): the pieces of s between the occurrences of sep
RECURSIVE Split(_, _)
Split(s, sep) ==
    IF \A i \in 1..Len(s) : s[i] # sep THEN <<s>>
    ELSE LET i == CHOOSE k \in 1..Len(s) : s[k] = sep /\ \A j \in 1..(k - 1) : s[j] # sep
         IN <<SubSeq(s, 1, i - 1)>> \o Split(SubSeq(s, i + 1, Len(s)), sep)

ParseSortDirection(dir) ==
    LET d == TrimSpace(dir)
    IN IF Len(d) = 1 /\ ToUpper(d[1]) \in {"DESC", "DESCENDING", "-", "D"}
       THEN SortDesc ELSE SortAsc

\* a SortFieldFromString without the "+" notation
SortFieldFromStringNoPlus(s) ==
    LET t == TrimSpace(s)
        parts == Split(t, ":")
    IN IF Len(t) > 0 /\ t[1] = "-" THEN [Field |-> Tail(t), Direction |-> SortDesc]
       ELSE [Field |-> parts[1],
             Direction |-> IF Len(parts) > 1 THEN ParseSortDirection(parts[2]) ELSE SortAsc]

SortFieldFromString(s) ==
    LET t == TrimSpace(s)
        parts == Split(t, ":")
    IN IF Len(t) > 0 /\ t[1] = "-" THEN [Field |-> Tail(t), Direction |-> SortDesc]
       ELSE IF Len(t) > 0 /\ t[1] = "+" THEN [Field |-> Tail(t), Direction |-> SortAsc]
       ELSE [Field |-> parts[1],
             Direction |-> IF Len(parts) > 1 THEN ParseSortDirection(parts[2]) ELSE SortAsc]

\* the loop of both cases of ParseSortFields: every part that is not blank
RECURSIVE SortFieldsOf(_)
SortFieldsOf(parts) ==
    IF Len(parts) = 0 THEN <<>>
    ELSE LET part == TrimSpace(parts[1])
         IN (IF part # <<>> THEN <<SortFieldFromString(part)>> ELSE <<>>)
            \o SortFieldsOf(Tail(parts))

\* input is a string, [kind |-> "string", v |-> text], or a []string,
\* [kind |-> "[]string", v |-> texts]
ParseSortFields(input) ==
    CASE input.kind = "string" ->
           IF input.v = <<>> THEN <<>> ELSE SortFieldsOf(Split(input.v, ","))
      [] input.kind = "[]string" -> SortFieldsOf(input.v)
      [] OTHER -> <<>>

(* Config, the configuration of filtering and sorting *)

IsFieldAllowed(c, field) ==
    IF DOMAIN c.AllowedFields = {} THEN TRUE
    ELSE field \in DOMAIN c.AllowedFields /\ c.AllowedFields[field]

\* a MapField that maps nothing
MapFieldNone(c, field) == field

MapField(c, field) ==
    IF field \in DOMAIN c.FieldMappings THEN c.FieldMappings[field] ELSE field

\* the loop over DefaultSort: the allowed ones, mapped
RECURSIVE AddDefaults(_, _, _)
AddDefaults(c, builder, defaults) ==
    IF Len(defaults) = 0 THEN builder
    ELSE AddDefaults(c,
                     IF IsFieldAllowed(c, defaults[1].Field)
                     THEN Add(builder, MapField(c, defaults[1].Field), defaults[1].Direction)
                     ELSE builder,
                     Tail(defaults))

\* the loop over the fields: an error at the first that is not allowed
RECURSIVE AddFields(_, _, _)
AddFields(c, builder, fields) ==
    IF Len(fields) = 0 THEN [err |-> "", nil |-> FALSE, builder |-> builder]
    ELSE IF ~IsFieldAllowed(c, fields[1].Field)
         THEN [err |-> "is not allowed for sorting", nil |-> TRUE, builder |-> NewOrderByBuilder]
         ELSE AddFields(c, Add(builder, MapField(c, fields[1].Field), fields[1].Direction),
                        Tail(fields))

ValidateAndBuild(c, fields) ==
    IF Len(fields) > c.MaxSortFields
    THEN [err |-> "too many sort fields", nil |-> TRUE, builder |-> NewOrderByBuilder]
    ELSE IF Len(fields) = 0
         THEN [err |-> "", nil |-> FALSE,
               builder |-> AddDefaults(c, NewOrderByBuilder, c.DefaultSort)]
         ELSE AddFields(c, NewOrderByBuilder, fields)

----------------------------------------------------------------------------
(* The cursor codec, reflection_scanner.go.  A Go value is Nil, IntV, StrV, a   *)
(* time.Time [t |-> "time"], an int64 2^31 + x that no int32 holds,            *)
(* [t |-> "int64"], or a value json.Marshal refuses, [t |-> "nan"].            *)
(* A cursor string is [valid, doc]: whether it is base64, and the document its *)
(* bytes hold, [kind, timestamp, id], of kind "object", "null", "other" (JSON  *)
(* of another shape), "garbage" (not JSON) or "empty" (no bytes).  A JSON      *)
(* value is [t, x] with t "number", "big" (the number 2^31 + x), "string",     *)
(* "null" or "absent"; the text of the time i is the string 1000 + i.          *)

\* the cursor string ""
EmptyString == [valid |-> TRUE, doc |-> [kind |-> "empty", timestamp |-> Nil, id |-> Nil]]

\* json.Marshal of CursorData, its error dropped, and base64 of the bytes
EncodeCursor(timestamp, id) ==
    LET json(v) == CASE v.t = "int" -> [t |-> "number", x |-> v.x]
                     [] v.t = "int64" -> [t |-> "big", x |-> v.x]
                     [] v.t = "str" -> [t |-> "string", x |-> v.x]
                     [] v.t = "time" -> [t |-> "string", x |-> 1000 + v.x]
                     [] OTHER -> [t |-> "null", x |-> 0]
    IN IF timestamp.t = "nan" \/ id.t = "nan" THEN EmptyString
       ELSE [valid |-> TRUE,
             doc |-> [kind |-> "object", timestamp |-> json(timestamp), id |-> json(id)]]

\* converted is what int32(id) gives for a float64 that no int32 represents, which
\* Go leaves to the implementation
DecodeCursor(encoded, converted) ==
    LET value(j) == CASE j.t = "number" -> [t |-> "float64", x |-> j.x]
                      [] j.t = "big" -> [t |-> "float64 >= 2^31", x |-> j.x]
                      [] j.t = "string" -> StrV(j.x)
                      [] OTHER -> Nil
        cursorData == IF encoded.doc.kind = "object"
                      THEN [Timestamp |-> value(encoded.doc.timestamp),
                            ID |-> value(encoded.doc.id)]
                      ELSE [Timestamp |-> Nil, ID |-> Nil]
        id == cursorData.ID
    IN IF encoded = EmptyString THEN [err |-> "", nil |-> TRUE, cursor |-> NilCursor]
       ELSE IF ~encoded.valid
            THEN [err |-> "invalid cursor encoding", nil |-> TRUE, cursor |-> NilCursor]
       ELSE IF encoded.doc.kind \notin {"object", "null"}
            THEN [err |-> "invalid cursor format", nil |-> TRUE, cursor |-> NilCursor]
       ELSE [err |-> "", nil |-> FALSE,
             cursor |-> [CreatedAt |-> cursorData.Timestamp,
                         ID |-> CASE id.t = "float64" -> IntV(id.x)
                                  [] id.t = "float64 >= 2^31" -> IntV(converted)
                                  [] OTHER -> IntV(0)]]

\* QueryAll: the rows the database yields for the query, all that match when the
\* template has no limit marker and at most limit of them when it has one
QueryAll(table, limitMarker, limit) ==
    IF limitMarker /\ limit > 0 /\ limit < Len(table) THEN SubSeq(table, 1, limit) ELSE table

\* QueryPaginated; getCursorFields, when given, returns (CreatedAt, ID) of the item.
\* items[limit-1] with limit = 0 is an index out of range, a run-time panic.
QueryPaginated(table, limitMarker, limit, hasGetCursorFields) ==
    LET items == QueryAll(table, limitMarker, limit + 1)
        absentCursor == [nil |-> TRUE, s |-> EmptyString]
    IN IF Len(items) > limit
       THEN IF hasGetCursorFields
            THEN IF limit = 0
                 THEN [panic |-> TRUE, HasMore |-> TRUE, Items |-> <<>>,
                       NextCursor |-> absentCursor]
                 ELSE [panic |-> FALSE, HasMore |-> TRUE, Items |-> SubSeq(items, 1, limit),
                       NextCursor |-> [nil |-> FALSE,
                                       s |-> EncodeCursor(items[limit].CreatedAt,
                                                          items[limit].ID)]]
            ELSE [panic |-> FALSE, HasMore |-> TRUE, Items |-> SubSeq(items, 1, limit),
                  NextCursor |-> absentCursor]
       ELSE [panic |-> FALSE, HasMore |-> FALSE, Items |-> items, NextCursor |-> absentCursor]

----------------------------------------------------------------------------
(* The builder calls as actions.  Every call is made on the innermost builder *)
(* (inside an Or callback, the sub-builder), in the three dialects alike.     *)

Depth == Len(stack[Postgres])
Top(d) == stack[d][Len(stack[d])]

\* the stacks after call F on the innermost builder
OnTop(F(_)) == [d \in Dialects |-> [stack[d] EXCEPT ![Len(stack[d])] = F(@)]]

\* the values a call is given: Nil, "" or a value no earlier call was given
Arg(i) == IntV(10 * budget + i)
SArg(i) == StrV(10 * budget + i)

Called(isAbsent) ==
    /\ budget > 0
    /\ budget' = budget - 1
    /\ absent' = isAbsent
    /\ UNCHANGED <<pq, call>>

CallEqual(column, value) ==
    /\ Called(value = Nil)
    /\ stack' = OnTop(LAMBDA w : Equal(w, column, value))
    /\ UNCHANGED rawShort

CallNotEqual(column, value) ==
    /\ Called(value = Nil)
    /\ stack' = OnTop(LAMBDA w : NotEqual(w, column, value))
    /\ UNCHANGED rawShort

CallGreaterThan(column, value) ==
    /\ Called(value = Nil)
    /\ stack' = OnTop(LAMBDA w : GreaterThan(w, column, value))
    /\ UNCHANGED rawShort

CallLessThan(column, value) ==
    /\ Called(value = Nil)
    /\ stack' = OnTop(LAMBDA w : LessThan(w, column, value))
    /\ UNCHANGED rawShort

CallLike(column, value) ==
    /\ Called(value = StrV(0))
    /\ stack' = OnTop(LAMBDA w : Like(w, column, value))
    /\ UNCHANGED rawShort

CallILike(column, value) ==
    /\ Called(value = StrV(0))
    /\ stack' = OnTop(LAMBDA w : ILike(w, column, value))
    /\ UNCHANGED rawShort

CallIn(column, values) ==
    /\ Called(values = <<>>)
    /\ stack' = OnTop(LAMBDA w : In(w, column, values))
    /\ UNCHANGED rawShort

CallBetween(column, start, end) ==
    /\ Called(start = Nil \/ end = Nil)
    /\ stack' = OnTop(LAMBDA w : Between(w, column, start, end))
    /\ UNCHANGED rawShort

CallIsNull(column) ==
    /\ Called(FALSE)
    /\ stack' = OnTop(LAMBDA w : IsNull(w, column))
    /\ UNCHANGED rawShort

CallIsNotNull(column) ==
    /\ Called(FALSE)
    /\ stack' = OnTop(LAMBDA w : IsNotNull(w, column))
    /\ UNCHANGED rawShort

CallRaw(sql, params) ==
    /\ Called(FALSE)
    /\ stack' = OnTop(LAMBDA w : Raw(w, sql, params))
    /\ rawShort' = (rawShort \/ CountK(sql, "?") < Len(params))

\* Or(fn) up to the call of fn: the sub-builder is created and handed to fn
OrBegin ==
    /\ Depth <= MaxOrDepth
    /\ budget > 0
    /\ stack' = [d \in Dialects |-> Append(stack[d], OrSub(Top(d)))]
    /\ absent' = FALSE
    /\ UNCHANGED <<budget, rawShort, pq, call>>

\* Or(fn) from the return of fn: the group is appended to the builder Or was called on
OrEnd ==
    /\ Depth > 1
    /\ stack' = [d \in Dialects |->
                   [i \in 1..(Depth - 1) |->
                      IF i = Depth - 1 THEN OrMerge(stack[d][i], Top(d)) ELSE stack[d][i]]]
    /\ absent' = FALSE
    /\ UNCHANGED <<budget, rawShort, pq, call>>

\* raw fragments of the README (unnamed/part_001:1300-1301), "?" per parameter
RawExists == <<Txt("EXISTS (SELECT 1 FROM orders WHERE orders.user_id = users.id)")>>
RawBetween == <<Txt("age"), SP, Txt("BETWEEN"), SP, Qmark, SP, Txt("AND"), SP, Qmark>>
RawFragments == {RawExists, RawBetween}

NoPQ == [done |-> FALSE]
NoCall == [done |-> FALSE]

Init ==
    /\ stack = [d \in Dialects |-> <<NewWhereBuilder(d)>>]
    /\ budget = MaxCalls
    /\ absent = FALSE
    /\ rawShort = FALSE
    /\ pq = NoPQ
    /\ call = NoCall

Next ==
    \/ \E c \in {"a", "b"}, v \in {Nil, Arg(1)} : CallEqual(c, v)
    \/ \E v \in {Nil, Arg(1)} : CallNotEqual("email", v)
    \/ \E v \in {Nil, Arg(1)} : CallGreaterThan("age", v)
    \/ \E v \in {Nil, Arg(1)} : CallLessThan("age", v)
    \/ \E v \in {StrV(0), SArg(1)} : CallLike("email", v)
    \/ \E v \in {StrV(0), SArg(1)} : CallILike("name", v)
    \/ \E vs \in {<<>>, <<Arg(1)>>, <<Arg(1), Arg(2)>>} : CallIn("role", vs)
    \/ \E s \in {Nil, Arg(1)}, e \in {Nil, Arg(2)} : CallBetween("created_at", s, e)
    \/ CallIsNull("deleted_at")
    \/ CallIsNotNull("confirmed_at")
    \/ \E f \in RawFragments, ps \in {<<>>, <<Arg(1), Arg(2)>>} : CallRaw(f, ps)
    \/ OrBegin
    \/ OrEnd

\* every WhereBuilder method, in any order, MaxCalls calls long
Spec == Init /\ [][Next]_vars

----------------------------------------------------------------------------
(* Longer runs of Equal, In and Or alone *)

InitOr ==
    /\ stack = [d \in Dialects |-> <<NewWhereBuilder(d)>>]
    /\ budget = MaxOrCalls
    /\ absent = FALSE
    /\ rawShort = FALSE
    /\ pq = NoPQ
    /\ call = NoCall

NextOr ==
    \/ \E c \in {"a", "b"} : CallEqual(c, Arg(1))
    \/ CallIn("role", <<Arg(1), Arg(2)>>)
    \/ OrBegin
    \/ OrEnd

SpecOr == InitOr /\ [][NextOr]_vars

----------------------------------------------------------------------------
(* ProcessQuery on a builder, a cursor, a sort and a limit *)

\* A template: the text up to the place where the pre-existing conditions stand
\* (head), whether head holds a WHERE clause, the text after it (rest), and, for the
\* properties, its static ORDER BY clause (static, empty if it has none).
\* spec.md section 8, property 9, with the markers of annotations.go
TplSpec ==
    [name |-> "spec", static |-> <<Txt("ORDER BY"), SP, Txt("created_at"), SP, Txt("DESC")>>,
     head |-> <<Txt("SELECT * FROM users WHERE active=true")>>, hasWhere |-> TRUE,
     rest |-> <<SP, Txt(WhereMarker), SP, Txt("ORDER BY"), SP, Txt("created_at"), SP,
                Txt("DESC"), SP, Txt(OrderByMarker), SP, Txt(LimitMarker)>>]
\* example/sqlc/queries.sql:13-16
TplExample ==
    [name |-> "example",
     static |-> <<Txt("ORDER BY"), SP, Txt("created_at"), SP, Txt("DESC"), Txt(","), SP,
                  Txt("id"), SP, Txt("DESC")>>,
     head |-> <<Txt("SELECT id, name, email, age, status, role, country, verified, created_at, updated_at, deleted_at"),
                NL, Txt("FROM users"), NL, Txt("WHERE deleted_at IS NULL")>>,
     hasWhere |-> TRUE,
     rest |-> <<SP, Txt(WhereMarker), NL, Txt("ORDER BY"), SP, Txt("created_at"), SP,
                Txt("DESC"), Txt(","), SP, Txt("id"), SP, Txt("DESC"), SP, Txt(OrderByMarker),
                SP, Txt(CursorMarker), SP, Txt(LimitMarker), Txt(";")>>]
\* README.md:156
TplReadme ==
    [name |-> "readme", static |-> <<>>,
     head |-> <<Txt("SELECT * FROM users WHERE active = true")>>,
     hasWhere |-> TRUE,
     rest |-> <<SP, Txt(WhereMarker), SP, Txt(OrderByMarker), SP, Txt(LimitMarker)>>]
\* unnamed/part_006:437
TplPlain ==
    [name |-> "plain", static |-> <<>>,
     head |-> <<Txt("SELECT * FROM users WHERE id > 0")>>, hasWhere |-> TRUE,
     rest |-> <<>>]
\* unnamed/part_006:332
TplNewline ==
    [name |-> "newline",
     static |-> <<Txt("ORDER BY"), NL, SP, SP, Txt("created_at"), SP, Txt("DESC"), Txt(","),
                  NL, SP, SP, Txt("id"), SP, Txt("DESC")>>,
     head |-> <<Txt("SELECT * FROM users")>>, hasWhere |-> FALSE,
     rest |-> <<NL, Txt("ORDER BY"), NL, SP, SP, Txt("created_at"), SP, Txt("DESC"), Txt(","),
                NL, SP, SP, Txt("id"), SP, Txt("DESC"), NL, Txt(OrderByMarker), NL,
                Txt("LIMIT 5")>>]
\* unnamed/part_006:456
TplUnion ==
    [name |-> "union", static |-> <<Txt("ORDER BY"), SP, Txt("created_at"), SP, Txt("DESC")>>,
     head |-> <<Txt("SELECT * FROM users")>>, hasWhere |-> FALSE,
     rest |-> <<SP, Txt("ORDER BY"), SP, Txt("created_at"), SP, Txt("DESC"), SP,
                Txt(OrderByMarker), SP, Txt("UNION SELECT * FROM archived_users"), SP,
                Txt("ORDER BY"), SP, Txt("created_at"), SP, Txt("DESC"), SP,
                Txt(OrderByMarker)>>]
\* unnamed/part_006:399
TplOrderLimit ==
    [name |-> "orderlimit", static |-> <<Txt("ORDER BY"), SP, Txt("created_at"), SP, Txt("DESC")>>,
     head |-> <<Txt("SELECT * FROM users")>>, hasWhere |-> FALSE,
     rest |-> <<SP, Txt("ORDER BY"), SP, Txt("created_at"), SP, Txt("DESC"), SP,
                Txt(OrderByMarker), SP, Txt(LimitMarker)>>]
\* example/sqlc/queries.sql:269
TplCursor ==
    [name |-> "cursor", static |-> <<>>,
     head |-> <<Txt("SELECT * FROM users WHERE deleted_at IS NULL")>>,
     hasWhere |-> TRUE,
     rest |-> <<SP, Txt(WhereMarker), SP, Txt(CursorMarker), SP, Txt(LimitMarker)>>]

Templates ==
    {TplSpec, TplExample, TplReadme, TplPlain, TplNewline, TplUnion, TplOrderLimit, TplCursor}

\* the pre-existing parameters of a template, and the conditions that use them
\* ("WHERE status = $1 AND ...", example/sqlc/queries.sql:46)
PreParams(n) == [i \in 1..n |-> IntV(100 + i)]
PreConds(d, t, n) ==
    Join([i \in 1..n |->
            <<SP, Txt(IF i = 1 /\ ~t.hasWhere THEN "WHERE" ELSE "AND"), SP, Txt("status"), SP,
              Txt("="), SP, Bind(IF d = Postgres THEN Dollar(i) ELSE Qmark, IntV(100 + i))>>],
         <<>>)
TemplateSQL(d, t, n) == t.head \o PreConds(d, t, n) \o t.rest

SomeCursor == [CreatedAt |-> StrV(7), ID |-> IntV(42)]
OrderByName == Add(NewOrderByBuilder, "name", SortAsc)
OrderByNameId == Add(OrderByName, "id", SortDesc)
OrderBys == {NilOrderBy, NewOrderByBuilder, OrderByName, OrderByNameId}

CallProcessQuery(t, passWhere, cursor, orderBy, limit, n) ==
    /\ ~pq.done
    /\ Depth = 1
    \* a caller without a builder passes nil
    /\ ~passWhere => stack = [d \in Dialects |-> <<NewWhereBuilder(d)>>]
    /\ pq' = [done |-> TRUE, name |-> t.name, static |-> t.static,
              tpl |-> [d \in Dialects |-> TemplateSQL(d, t, n)],
              passWhere |-> passWhere, cursor |-> cursor, orderBy |-> orderBy,
              limit |-> limit, pre |-> n,
              out |-> [d \in Dialects |->
                         ProcessQuery(d, TemplateSQL(d, t, n),
                                      IF passWhere THEN stack[d][1] ELSE NilWhere,
                                      cursor, orderBy, limit, PreParams(n))]]
    /\ absent' = FALSE
    /\ UNCHANGED <<stack, budget, rawShort, call>>

InitPQ ==
    /\ stack = [d \in Dialects |-> <<NewWhereBuilder(d)>>]
    /\ budget = MaxPQCalls
    /\ absent = FALSE
    /\ rawShort = FALSE
    /\ pq = NoPQ
    /\ call = NoCall

BuilderCallPQ ==
    \/ \E v \in {Nil, IntV(18)} : CallGreaterThan("age", v)
    \/ CallIn("role", <<StrV(1), StrV(2)>>)
    \/ CallRaw(RawBetween, <<IntV(21), IntV(65)>>)
    \/ OrBegin
    \/ OrEnd

NextPQ ==
    \/ ~pq.done /\ BuilderCallPQ
    \/ \E t \in Templates, passWhere \in BOOLEAN, cursor \in {NilCursor, SomeCursor},
          orderBy \in OrderBys, limit \in {0, 10}, n \in 0..MaxPre :
          CallProcessQuery(t, passWhere, cursor, orderBy, limit, n)

SpecPQ == InitPQ /\ [][NextPQ]_vars

----------------------------------------------------------------------------
(* CombineConditions on builders made one after the other *)

\* the caller is done with the builder in hand and starts the next one
NextBuilder ==
    /\ ~call.done
    /\ Depth = 1
    /\ Len(call.builders[Postgres]) < MaxBuilders
    /\ call' = [call EXCEPT !.builders = [d \in Dialects |-> Append(@[d], stack[d][1])]]
    /\ stack' = [d \in Dialects |-> <<NewWhereBuilder(d)>>]
    /\ absent' = FALSE
    /\ UNCHANGED <<budget, rawShort, pq>>

\* the caller has no builder for one of the arguments and passes nil
NextBuilderNil ==
    /\ ~call.done
    /\ stack = [d \in Dialects |-> <<NewWhereBuilder(d)>>]
    /\ Len(call.builders[Postgres]) < MaxBuilders
    /\ call' = [call EXCEPT !.builders = [d \in Dialects |-> Append(@[d], NilWhere)]]
    /\ absent' = FALSE
    /\ UNCHANGED <<stack, budget, rawShort, pq>>

\* CombineConditions(dialect, builders...)
CallCombineConditions ==
    /\ ~call.done
    /\ stack = [d \in Dialects |-> <<NewWhereBuilder(d)>>]
    /\ call' = [call EXCEPT !.done = TRUE,
                            !.out = [d \in Dialects |->
                                       CombineConditions(d, call.builders[d])]]
    /\ absent' = FALSE
    /\ UNCHANGED <<stack, budget, rawShort, pq>>

InitCombine ==
    /\ stack = [d \in Dialects |-> <<NewWhereBuilder(d)>>]
    /\ budget = MaxCombineCalls
    /\ absent = FALSE
    /\ rawShort = FALSE
    /\ pq = NoPQ
    /\ call = [done |-> FALSE, builders |-> [d \in Dialects |-> <<>>],
               out |-> [d \in Dialects |-> NewWhereBuilder(d)]]

NextCombine ==
    \/ ~call.done /\ \E c \in {"name", "status"} : CallEqual(c, Arg(1))
    \/ ~call.done /\ CallIn("role", <<Arg(1), Arg(2)>>)
    \/ NextBuilder
    \/ NextBuilderNil
    \/ CallCombineConditions

SpecCombine == InitCombine /\ [][NextCombine]_vars

\* ParameterAdjuster.AdjustSQL: the loop of CombineConditions over the "$" of sql
AdjustSQL(dialect, sql, startIndex) ==
    IF dialect # Postgres THEN sql
    ELSE CombineRenumber(sql, 1, CountK(sql, "$"), startIndex)

----------------------------------------------------------------------------
(* Two runs side by side: the same calls, other values *)

\* the value the second run is given where the first is given value: the same or
\* another one of the same type
Others(value) == {value, [value EXCEPT !.x = @ + 5]}
OtherSeqs(values) ==
    {[i \in 1..Len(values) |-> value] : value \in Others(values[1])}
    \cup {[i \in 1..Len(values) |-> [values[i] EXCEPT !.x = @ + 5]]}

\* the stacks of the second run after call G on its innermost builder
OnTwin(G(_)) == [d \in Dialects |-> [call.twin[d] EXCEPT ![Len(call.twin[d])] = G(@)]]

\* one builder call made in both runs: F on the first, G on the second
TwinCalled ==
    /\ ~call.done
    /\ budget > 0
    /\ budget' = budget - 1
    /\ absent' = FALSE
    /\ UNCHANGED <<rawShort, pq>>

TwinEqual(column, value, other) ==
    /\ TwinCalled
    /\ stack' = OnTop(LAMBDA w : Equal(w, column, value))
    /\ call' = [call EXCEPT !.twin = OnTwin(LAMBDA w : Equal(w, column, other))]

TwinLike(column, value, other) ==
    /\ TwinCalled
    /\ stack' = OnTop(LAMBDA w : Like(w, column, value))
    /\ call' = [call EXCEPT !.twin = OnTwin(LAMBDA w : Like(w, column, other))]

TwinILike(column, value, other) ==
    /\ TwinCalled
    /\ stack' = OnTop(LAMBDA w : ILike(w, column, value))
    /\ call' = [call EXCEPT !.twin = OnTwin(LAMBDA w : ILike(w, column, other))]

TwinIn(column, values, others) ==
    /\ TwinCalled
    /\ stack' = OnTop(LAMBDA w : In(w, column, values))
    /\ call' = [call EXCEPT !.twin = OnTwin(LAMBDA w : In(w, column, others))]

TwinBetween(column, start, end, otherStart, otherEnd) ==
    /\ TwinCalled
    /\ stack' = OnTop(LAMBDA w : Between(w, column, start, end))
    /\ call' = [call EXCEPT !.twin = OnTwin(LAMBDA w : Between(w, column, otherStart, otherEnd))]

TwinRaw(sql, params, others) ==
    /\ TwinCalled
    /\ stack' = OnTop(LAMBDA w : Raw(w, sql, params))
    /\ call' = [call EXCEPT !.twin = OnTwin(LAMBDA w : Raw(w, sql, others))]

TwinOrBegin ==
    /\ ~call.done
    /\ Depth <= MaxOrDepth
    /\ budget > 0
    /\ stack' = [d \in Dialects |-> Append(stack[d], OrSub(Top(d)))]
    /\ call' = [call EXCEPT !.twin = [d \in Dialects |->
                                        Append(@[d], OrSub(@[d][Len(@[d])]))]]
    /\ absent' = FALSE
    /\ UNCHANGED <<budget, rawShort, pq>>

TwinOrEnd ==
    /\ ~call.done
    /\ Depth > 1
    /\ stack' = [d \in Dialects |->
                   [i \in 1..(Depth - 1) |->
                      IF i = Depth - 1 THEN OrMerge(stack[d][i], Top(d)) ELSE stack[d][i]]]
    /\ call' = [call EXCEPT !.twin = [d \in Dialects |->
                   [i \in 1..(Depth - 1) |->
                      IF i = Depth - 1 THEN OrMerge(@[d][i], @[d][Depth]) ELSE @[d][i]]]]
    /\ absent' = FALSE
    /\ UNCHANGED <<budget, rawShort, pq>>

\* ProcessQuery in both runs: the same template, sort and pre-existing parameters,
\* a cursor and a limit in both or in none
TwinProcessQuery(t, cursor, otherCursor, orderBy, limit, otherLimit, n) ==
    /\ ~call.done
    /\ Depth = 1
    /\ call' = [call EXCEPT
                  !.done = TRUE,
                  !.pre = n,
                  !.out = [d \in Dialects |->
                             ProcessQuery(d, TemplateSQL(d, t, n), stack[d][1], cursor,
                                          orderBy, limit, PreParams(n))],
                  !.other = [d \in Dialects |->
                               ProcessQuery(d, TemplateSQL(d, t, n), call.twin[d][1],
                                            otherCursor, orderBy, otherLimit, PreParams(n))]]
    /\ absent' = FALSE
    /\ UNCHANGED <<stack, budget, rawShort, pq>>

OtherCursor == [CreatedAt |-> StrV(8), ID |-> IntV(43)]

InitTwin ==
    /\ stack = [d \in Dialects |-> <<NewWhereBuilder(d)>>]
    /\ budget = MaxTwinCalls
    /\ absent = FALSE
    /\ rawShort = FALSE
    /\ pq = NoPQ
    /\ call = [done |-> FALSE, twin |-> [d \in Dialects |-> <<NewWhereBuilder(d)>>],
               pre |-> 0,
               out |-> [d \in Dialects |-> [sql |-> <<>>, params |-> <<>>]],
               other |-> [d \in Dialects |-> [sql |-> <<>>, params |-> <<>>]]]

NextTwin ==
    \/ \E o \in Others(Arg(1)) : TwinEqual("status", Arg(1), o)
    \/ \E o \in Others(SArg(1)) : TwinLike("email", SArg(1), o)
    \/ \E o \in Others(SArg(1)) : TwinILike("name", SArg(1), o)
    \/ \E os \in OtherSeqs(<<Arg(1), Arg(2)>>) : TwinIn("role", <<Arg(1), Arg(2)>>, os)
    \/ \E os \in OtherSeqs(<<Arg(1), Arg(2)>>) :
          TwinBetween("created_at", Arg(1), Arg(2), os[1], os[2])
    \/ \E os \in OtherSeqs(<<Arg(1), Arg(2)>>) : TwinRaw(RawBetween, <<Arg(1), Arg(2)>>, os)
    \/ TwinOrBegin
    \/ TwinOrEnd
    \/ \E t \in {TplExample, TplPlain}, n \in 0..MaxPre :
          \/ TwinProcessQuery(t, NilCursor, NilCursor, OrderByName, 0, 0, n)
          \/ TwinProcessQuery(t, SomeCursor, OtherCursor, OrderByName, 10, 20, n)

SpecTwin == InitTwin /\ [][NextTwin]_vars

----------------------------------------------------------------------------
(* Query filters, queryfilter.go *)

\* the Operator constants: Op.Eq is OpEq
Op ==
    [Eq |-> "=",
     Ne |-> "!=",
     Gt |-> ">",
     Gte |-> ">=",
     Lt |-> "<",
     Lte |-> "<=",
     Like |-> "LIKE",
     ILike |-> "ILIKE",
     Contains |-> "contains",
     Includes |-> "includes",
     DoesNotContain |-> "doesNotContain",
     StartsWith |-> "startsWith",
     EndsWith |-> "endsWith",
     DoesNotStartWith |-> "doesNotStartWith",
     DoesNotEndWith |-> "doesNotEndWith",
     Between |-> "between",
     Before |-> "before",
     After |-> "after",
     In |-> "in",
     NotIn |-> "notIn",
     IsNull |-> "isNull",
     IsNotNull |-> "isNotNull"]

\* strings.ToLower, on the spellings that occur in the keys of the model
ToLower(s) ==
    CASE s = "GT" -> "gt"
      [] s = "Contains" -> "contains"
      [] s = "notIn" -> "notin"
      [] OTHER -> s

MapOperator(op) ==
    LET l == ToLower(op)
    IN CASE l = "gt" -> Op.Gt
         [] l = "gte" -> Op.Gte
         [] l = "lt" -> Op.Lt
         [] l = "lte" -> Op.Lte
         [] l \in {"ne", "neq"} -> Op.Ne
         [] l \in {"sw", "startswith"} -> Op.StartsWith
         [] l \in {"ew", "endswith"} -> Op.EndsWith
         [] l \in {"includes", "contains"} -> Op.Contains
         [] l \in {"notcontains", "doesnotcontain"} -> Op.DoesNotContain
         [] l \in {"notstartswith", "doesnotstartswith"} -> Op.DoesNotStartWith
         [] l \in {"notendswith", "doesnotendwith"} -> Op.DoesNotEndWith
         [] l = "between" -> Op.Between
         [] l = "before" -> Op.Before
         [] l = "after" -> Op.After
         [] l = "in" -> Op.In
         [] l \in {"notin", "notIn"} -> Op.NotIn
         [] l \in {"isnull", "null"} -> Op.IsNull
         [] l \in {"isnotnull", "notnull"} -> Op.IsNotNull
         [] l = "like" -> Op.Like
         [] l = "ilike" -> Op.ILike
         [] OTHER -> Op.Eq

validOps ==
    {"gt", "gte", "lt", "lte", "ne", "neq", "eq",
     "sw", "startswith", "ew", "endswith",
     "contains", "includes", "notcontains", "doesnotcontain",
     "notstartswith", "doesnotstartswith", "notendswith", "doesnotendwith",
     "between", "before", "after", "in", "notin", "notIn",
     "isnull", "null", "isnotnull", "notnull", "like", "ilike"}

\* a check that takes every word for an operator
isValidOperatorAny(op) == TRUE

isValidOperator(op) == ToLower(op) \in validOps

(* A query key is its text together with what the string functions of         *)
(* parseFieldOperator make of it:                                             *)
(*   open, closed   strings.Contains(key, "["), strings.HasSuffix(key, "]")   *)
(*   before, inner  the two parts of strings.SplitN(key, "[", 2), the second  *)
(*                  without its "]" suffix                                    *)
(*   parts          strings.Split(key, "_")                                   *)
(*   front          strings.Join(parts[:len(parts)-1], "_")                   *)
Key(text, open, closed, before, inner, parts, front) ==
    [text |-> text, open |-> open, closed |-> closed, before |-> before, inner |-> inner,
     parts |-> parts, front |-> front]

K ==
    [Name |-> Key("name", FALSE, FALSE, "name", "", <<"name">>, ""),
     Secret |-> Key("secret", FALSE, FALSE, "secret", "", <<"secret">>, ""),
     Note |-> Key("note", FALSE, FALSE, "note", "", <<"note">>, ""),
     Simple |-> Key("simple", FALSE, FALSE, "simple", "", <<"simple">>, ""),
     AgeGt |-> Key("age[gt]", TRUE, TRUE, "age", "gt", <<"age[gt]">>, ""),
     StatusIn |-> Key("status[in]", TRUE, TRUE, "status", "in", <<"status[in]">>, ""),
     ScoreBetween |->
        Key("score[between]", TRUE, TRUE, "score", "between", <<"score[between]">>, ""),
     PriceBetween |->
        Key("price[between]", TRUE, TRUE, "price", "between", <<"price[between]">>, ""),
     RangeBetween |->
        Key("range[between]", TRUE, TRUE, "range", "between", <<"range[between]">>, ""),
     EmailContains |->
        Key("email[contains]", TRUE, TRUE, "email", "contains", <<"email[contains]">>, ""),
     NameEq |-> Key("name[eq]", TRUE, TRUE, "name", "eq", <<"name[eq]">>, ""),
     NameFoo |-> Key("name[foo]", TRUE, TRUE, "name", "foo", <<"name[foo]">>, ""),
     UserNameNe |->
        Key("user_name[ne]", TRUE, TRUE, "user_name", "ne", <<"user", "name[ne]">>, "user"),
     AgeGtLt |-> Key("age_gt[lt]", TRUE, TRUE, "age_gt", "lt", <<"age", "gt[lt]">>, "age"),
     UserName |-> Key("user_name", FALSE, FALSE, "user_name", "", <<"user", "name">>, "user"),
     CreatedAt |->
        Key("created_at", FALSE, FALSE, "created_at", "", <<"created", "at">>, "created"),
     AgeGte |-> Key("age_gte", FALSE, FALSE, "age_gte", "", <<"age", "gte">>, "age"),
     AgeGT |-> Key("age_GT", FALSE, FALSE, "age_GT", "", <<"age", "GT">>, "age"),
     NameEqU |-> Key("name_eq", FALSE, FALSE, "name_eq", "", <<"name", "eq">>, "name"),
     UserNameContains |->
        Key("user_name_contains", FALSE, FALSE, "user_name_contains", "",
            <<"user", "name", "contains">>, "user_name"),
     GtAge |-> Key("gt_age", FALSE, FALSE, "gt_age", "", <<"gt", "age">>, "gt"),
     IsNull |->
        Key("deleted_at_isnull", FALSE, FALSE, "deleted_at_isnull", "",
            <<"deleted", "at", "isnull">>, "deleted_at"),
     AgeOpen |-> Key("age[gt", TRUE, FALSE, "age", "gt", <<"age[gt">>, ""),
     AgeUnderOpen |-> Key("age_[gt", TRUE, FALSE, "age_", "gt", <<"age", "[gt">>, "age")]

Keys == {K[n] : n \in DOMAIN K}

parseFieldOperator(key, defaultOp) ==
    IF key.open /\ key.closed
    THEN [field |-> key.before, operator |-> MapOperator(key.inner)]
    ELSE IF Len(key.parts) >= 2 /\ isValidOperator(key.parts[Len(key.parts)])
         THEN [field |-> key.front, operator |-> MapOperator(key.parts[Len(key.parts)])]
         ELSE [field |-> key.text, operator |-> defaultOp]

(* Values of filters: beside Nil, IntV and StrV, what SearchPattern makes.  A  *)
(* []string is the value StringsV, its elements being kept in the filter's     *)
(* field Strings.                                                             *)
StringsV == [t |-> "[]string", x |-> 0]

\* SearchPattern: "%" put before, after or around the text
SearchPattern(text, mode) ==
    CASE mode = "prefix" -> [t |-> "str%", x |-> text.x]
      [] mode = "suffix" -> [t |-> "%str", x |-> text.x]
      [] mode = "exact" -> text
      [] OTHER -> [t |-> "%str%", x |-> text.x]

\* the types that assert to string in applyFilter
IsString(value) == value.t \in {"str", "str%", "%str", "%str%"}

(* A query value is its text s together with what the conversions make of it: *)
(*   items  strings.Split(value, ","), each part trimmed                      *)
(*   num    the result of strconv.Atoi, else of strconv.ParseFloat, else Nil  *)
(*   date   the result of time.Parse with the date layout, else Nil           *)
QueryValue(i, items, num, date) ==
    [s |-> StrV(i), items |-> items, num |-> num, date |-> date]

\* "", john, y, bob, example, 18, active,pending, 10, 10,20 and 10,20,30
V ==
    [Empty |-> QueryValue(0, <<StrV(0)>>, Nil, Nil),
     John |-> QueryValue(1, <<StrV(1)>>, Nil, Nil),
     Y |-> QueryValue(2, <<StrV(2)>>, Nil, Nil),
     Bob |-> QueryValue(3, <<StrV(3)>>, Nil, Nil),
     Example |-> QueryValue(4, <<StrV(4)>>, Nil, Nil),
     Eighteen |-> QueryValue(18, <<StrV(18)>>, IntV(18), Nil),
     ActivePending |-> QueryValue(30, <<StrV(31), StrV(32)>>, Nil, Nil),
     Ten |-> QueryValue(10, <<StrV(10)>>, IntV(10), Nil),
     TenTwenty |-> QueryValue(40, <<StrV(10), StrV(20)>>, Nil, Nil),
     TenToThirty |-> QueryValue(41, <<StrV(10), StrV(20), StrV(30)>>, Nil, Nil)]

\* a conversion that takes any number of parts for between
convertValueAnyArity(value, op) ==
    CASE op \in {Op.Between, Op.In, Op.NotIn} ->
           [err |-> "", value |-> StringsV, strings |-> value.items]
      [] op \in {Op.IsNull, Op.IsNotNull} -> [err |-> "", value |-> Nil, strings |-> <<>>]
      [] OTHER -> [err |-> "", value |-> value.s, strings |-> <<>>]

convertValue(value, op) ==
    CASE op = Op.Between ->
           IF Len(value.items) # 2
           THEN [err |-> "between operator requires exactly 2 comma-separated values",
                 value |-> Nil, strings |-> <<>>]
           ELSE [err |-> "", value |-> StringsV, strings |-> value.items]
      [] op \in {Op.In, Op.NotIn} ->
           [err |-> "", value |-> StringsV, strings |-> value.items]
      [] op \in {Op.Before, Op.After} ->
           [err |-> "", value |-> IF value.date # Nil THEN value.date ELSE value.s,
            strings |-> <<>>]
      [] op \in {Op.IsNull, Op.IsNotNull} ->
           [err |-> "", value |-> Nil, strings |-> <<>>]
      [] op \in {Op.Gt, Op.Gte, Op.Lt, Op.Lte} ->
           [err |-> "", value |-> IF value.num # Nil THEN value.num ELSE value.s,
            strings |-> <<>>]
      [] OTHER -> [err |-> "", value |-> value.s, strings |-> <<>>]

\* config.AllowedFields[field] of a map[string]bool
AllowedField(config, field) ==
    field \in DOMAIN config.AllowedFields /\ config.AllowedFields[field]

TooMany == "too many filters"

(* ParseURLValues.  values is the query as written, a sequence of pairs of a  *)
(* key and its first value, the keys distinct; order is the order in which    *)
(* the range over the map visits them, which Go leaves open.                  *)
RECURSIVE ParseLoop(_, _, _, _, _)
ParseLoop(values, order, i, filters, config) ==
    IF i > Len(values) THEN [err |-> "", filters |-> filters]
    ELSE LET key == values[order[i]].key
             val == values[order[i]].val
             fo == parseFieldOperator(key, config.DefaultOperator)
             field == IF fo.field \in DOMAIN config.FieldMappings
                      THEN config.FieldMappings[fo.field] ELSE fo.field
             conv == convertValue(val, fo.operator)
         IN IF Len(filters) >= config.MaxFilters THEN [err |-> TooMany, filters |-> <<>>]
            ELSE IF val.s = StrV(0) THEN ParseLoop(values, order, i + 1, filters, config)
            ELSE IF DOMAIN config.AllowedFields # {} /\ ~AllowedField(config, field)
                 THEN ParseLoop(values, order, i + 1, filters, config)
            ELSE IF conv.err # "" THEN [err |-> "invalid value for field", filters |-> <<>>]
            ELSE ParseLoop(values, order, i + 1,
                           Append(filters, [Field |-> field, Operator |-> fo.operator,
                                            Value |-> conv.value, Strings |-> conv.strings]),
                           config)

\* a parse that lets one filter more through than MaxFilters
ParseURLValuesOneMore(values, order, config) ==
    ParseLoop(values, order, 1, <<>>, [config EXCEPT !.MaxFilters = @ + 1])

ParseURLValues(values, order, config) == ParseLoop(values, order, 1, <<>>, config)

\* url.ParseQuery and the parse of its map
ParseQueryString(queryString, order, config) == ParseURLValues(queryString, order, config)

\* r.URL.Query() and the parse of its map
ParseRequest(r, order, config) == ParseURLValues(r, order, config)

\* "?" and strings.Repeat(",?", n-1)
RECURSIVE RepeatQ(_)
RepeatQ(n) == IF n <= 1 THEN <<Qmark>> ELSE RepeatQ(n - 1) \o <<Txt(","), Qmark>>

NotILike(field) == <<Txt("NOT"), SP, Txt(field), SP, Txt("ILIKE"), SP, Qmark>>

applyFilter(filter, builder) ==
    LET field == filter.Field
        value == filter.Value
        op == filter.Operator
        ok(w) == [err |-> "", builder |-> w]
        fail(msg) == [err |-> msg, builder |-> builder]
    IN CASE op = Op.Eq -> ok(Equal(builder, field, value))
         [] op = Op.Ne -> ok(NotEqual(builder, field, value))
         [] op = Op.Gt -> ok(GreaterThan(builder, field, value))
         [] op = Op.Gte -> ok(Raw(builder, <<Txt(field), SP, Txt(">="), SP, Qmark>>, <<value>>))
         [] op = Op.Lt -> ok(LessThan(builder, field, value))
         [] op = Op.Lte -> ok(Raw(builder, <<Txt(field), SP, Txt("<="), SP, Qmark>>, <<value>>))
         [] op = Op.Like ->
              IF IsString(value) THEN ok(Like(builder, field, value))
              ELSE fail("LIKE operator requires string value")
         [] op = Op.ILike ->
              IF IsString(value) THEN ok(ILike(builder, field, value))
              ELSE fail("ILIKE operator requires string value")
         [] op \in {Op.Contains, Op.Includes} ->
              IF IsString(value) THEN ok(ILike(builder, field, SearchPattern(value, "contains")))
              ELSE fail("contains operator requires string value")
         [] op = Op.DoesNotContain ->
              IF IsString(value)
              THEN ok(Raw(builder, NotILike(field), <<SearchPattern(value, "contains")>>))
              ELSE fail("doesNotContain operator requires string value")
         [] op = Op.StartsWith ->
              IF IsString(value) THEN ok(ILike(builder, field, SearchPattern(value, "prefix")))
              ELSE fail("startsWith operator requires string value")
         [] op = Op.EndsWith ->
              IF IsString(value) THEN ok(ILike(builder, field, SearchPattern(value, "suffix")))
              ELSE fail("endsWith operator requires string value")
         [] op = Op.DoesNotStartWith ->
              IF IsString(value)
              THEN ok(Raw(builder, NotILike(field), <<SearchPattern(value, "prefix")>>))
              ELSE fail("doesNotStartWith operator requires string value")
         [] op = Op.DoesNotEndWith ->
              IF IsString(value)
              THEN ok(Raw(builder, NotILike(field), <<SearchPattern(value, "suffix")>>))
              ELSE fail("doesNotEndWith operator requires string value")
         [] op = Op.Between ->
              IF value = StringsV /\ Len(filter.Strings) = 2
              THEN ok(Between(builder, field, filter.Strings[1], filter.Strings[2]))
              ELSE fail("between operator requires array of 2 values")
         [] op = Op.Before -> ok(LessThan(builder, field, value))
         [] op = Op.After -> ok(GreaterThan(builder, field, value))
         [] op = Op.In ->
              IF value = StringsV THEN ok(In(builder, field, filter.Strings))
              ELSE fail("in operator requires array value")
         [] op = Op.NotIn ->
              IF value = StringsV
              THEN ok(Raw(builder,
                          <<Txt("NOT"), SP, Txt(field), SP, Txt("IN"), SP, Txt("(")>>
                          \o RepeatQ(Len(filter.Strings)) \o <<Txt(")")>>,
                          filter.Strings))
              ELSE fail("notIn operator requires array value")
         [] op = Op.IsNull -> ok(IsNull(builder, field))
         [] op = Op.IsNotNull -> ok(IsNotNull(builder, field))
         [] OTHER -> fail("unsupported operator")

RECURSIVE ApplyFiltersToBuilder(_, _)
ApplyFiltersToBuilder(filters, builder) ==
    IF Len(filters) = 0 THEN [err |-> "", builder |-> builder]
    ELSE LET r == applyFilter(filters[1], builder)
         IN IF r.err # "" THEN r ELSE ApplyFiltersToBuilder(Tail(filters), r.builder)

\* the two convenience functions differ in where the map comes from
BuildFrom(parsed, dialect) ==
    IF parsed.err # "" THEN [err |-> parsed.err, nil |-> TRUE, builder |-> NewWhereBuilder(dialect)]
    ELSE LET r == ApplyFiltersToBuilder(parsed.filters, NewWhereBuilder(dialect))
         IN IF r.err # "" THEN [err |-> r.err, nil |-> TRUE, builder |-> NewWhereBuilder(dialect)]
            ELSE [err |-> "", nil |-> FALSE, builder |-> r.builder]

BuildFromRequest(r, order, dialect, config) == BuildFrom(ParseRequest(r, order, config), dialect)

BuildFromQueryString(queryString, order, dialect, config) ==
    BuildFrom(ParseQueryString(queryString, order, config), dialect)

----------------------------------------------------------------------------
(* EnhancedQueries, and the QueryBuilder of sqlcdynamic.go *)

\* QueryBuilder.Build for a query with Where(where) when where is not nil
QueryBuilderBuild(baseQuery, where) ==
    IF where # NilWhere /\ HasConditions(where)
    THEN [sql |-> baseQuery
                    \o <<SP, Txt(IF Contains(baseQuery, "WHERE") THEN "AND" ELSE "WHERE"), SP>>
                    \o Build(where).sql,
          params |-> Build(where).params]
    ELSE [sql |-> baseQuery, params |-> <<>>]

\* EnhancedQueries.SearchQuery
SearchQuery(dialect, searchColumns, searchText, filters) ==
    LET RECURSIVE each(_, _)
        each(or, i) ==
            IF i > Len(searchColumns) THEN or
            ELSE each(ILike(or, searchColumns[i], SearchPattern(searchText, "contains")), i + 1)
        where == NewWhereBuilder(dialect)
        searched == IF searchText # StrV(0) /\ Len(searchColumns) > 0
                    THEN OrMerge(where, each(OrSub(where), 1))
                    ELSE where
    IN IF filters # NilWhere /\ HasConditions(filters)
       THEN Raw(searched, Build(filters).sql, Build(filters).params)
       ELSE searched

\* EnhancedQueries.PaginationQuery; orderBy "" is no ORDER BY.  "$" + string(rune(n))
\* is "$" and the character whose code point is n, a digit only for 48 to 57.
PaginationQuery(dialect, baseQuery, whereConditions, limit, offset, orderBy) ==
    LET built == QueryBuilderBuild(baseQuery, whereConditions)
        ordered == IF orderBy # "" THEN built.sql \o <<SP, Txt("ORDER BY"), SP, Txt(orderBy)>>
                   ELSE built.sql
        rune(n) == IF n \in 48..57 THEN Dollar(n - 48)
                   ELSE [k |-> "$ and the character of code", n |-> n, v |-> Nil]
        mark(n, value) == Bind(IF dialect = Postgres THEN rune(n) ELSE Qmark, value)
        n == Len(built.params)
    IN IF limit <= 0 THEN [sql |-> ordered, params |-> built.params]
       ELSE IF offset <= 0
            THEN [sql |-> ordered \o <<SP, Txt("LIMIT"), SP, mark(n + 1, IntV(limit))>>,
                  params |-> Append(built.params, IntV(limit))]
       ELSE [sql |-> ordered \o <<SP, Txt("LIMIT"), SP, mark(n + 1, IntV(limit)),
                                  SP, Txt("OFFSET"), SP, mark(n + 2, IntV(offset))>>,
             params |-> built.params \o <<IntV(limit), IntV(offset)>>]

----------------------------------------------------------------------------
(* BuildFromQueryString and BuildFromRequest on a query and a configuration *)

\* the pairs a query of the model is made of, in the order it writes them
QueryPairs ==
    <<[key |-> K.Name, val |-> V.John],
      [key |-> K.AgeGt, val |-> V.Eighteen],
      [key |-> K.StatusIn, val |-> V.ActivePending],
      [key |-> K.Secret, val |-> V.Y],
      [key |-> K.UserName, val |-> V.Bob],
      [key |-> K.Note, val |-> V.Empty],
      [key |-> K.ScoreBetween, val |-> V.Ten],
      [key |-> K.EmailContains, val |-> V.Example]>>

\* the pairs of QueryPairs at the positions S, in the order of QueryPairs
RECURSIVE PairsAt(_)
PairsAt(S) ==
    IF S = {} THEN <<>>
    ELSE LET m == CHOOSE i \in S : \A j \in S : i <= j
         IN <<QueryPairs[m]>> \o PairsAt(S \ {m})

QueryStrings ==
    {PairsAt(S) : S \in {T \in SUBSET (1..Len(QueryPairs)) : Cardinality(T) <= MaxKeys}}

NoFields == [f \in {} |-> TRUE]
NoMappings == [f \in {} |-> ""]

\* DefaultQueryFilterConfig with its AllowedFields, FieldMappings and MaxFilters set
FilterConfigs ==
    {[AllowedFields |-> a, FieldMappings |-> m, DefaultOperator |-> Op.Eq, MaxFilters |-> n] :
        a \in {NoFields,
               [f \in {"name"} |-> TRUE],
               [f \in {"name", "age", "status", "secret"} |-> f # "secret"]},
        m \in {NoMappings, [f \in {"user_name"} |-> "name"]},
        n \in 1..MaxKeys}

\* the orders in which a range over a map of n keys can visit them
Orders(n) == {f \in [1..n -> 1..n] : \A i, j \in 1..n : f[i] = f[j] => i = j}

CallBuildFromQueryString ==
    /\ ~call.done
    /\ \E order \in Orders(Len(call.values)), d \in Dialects :
         call' = [call EXCEPT !.done = TRUE, !.via = "query", !.order = order, !.dialect = d,
                              !.parsed = ParseQueryString(call.values, order, call.config),
                              !.out = BuildFromQueryString(call.values, order, d, call.config)]
    /\ UNCHANGED <<stack, budget, absent, rawShort, pq>>

CallBuildFromRequest ==
    /\ ~call.done
    /\ \E order \in Orders(Len(call.values)), d \in Dialects :
         call' = [call EXCEPT !.done = TRUE, !.via = "request", !.order = order, !.dialect = d,
                              !.parsed = ParseRequest(call.values, order, call.config),
                              !.out = BuildFromRequest(call.values, order, d, call.config)]
    /\ UNCHANGED <<stack, budget, absent, rawShort, pq>>

InitFilter ==
    /\ stack = [d \in Dialects |-> <<NewWhereBuilder(d)>>]
    /\ budget = 0
    /\ absent = FALSE
    /\ rawShort = FALSE
    /\ pq = NoPQ
    /\ \E values \in QueryStrings, config \in FilterConfigs :
         call = [done |-> FALSE, values |-> values, config |-> config, via |-> "",
                 order |-> <<>>, dialect |-> Postgres,
                 parsed |-> [err |-> "", filters |-> <<>>],
                 out |-> [err |-> "", nil |-> TRUE, builder |-> NewWhereBuilder(Postgres)]]

NextFilter ==
    \/ CallBuildFromQueryString
    \/ CallBuildFromRequest

SpecFilter == InitFilter /\ [][NextFilter]_vars

----------------------------------------------------------------------------
(* parseFieldOperator on a key and a default operator *)

CallParseFieldOperator ==
    /\ ~call.done
    /\ call' = [call EXCEPT !.done = TRUE,
                            !.out = parseFieldOperator(call.key, call.defaultOp)]
    /\ UNCHANGED <<stack, budget, absent, rawShort, pq>>

InitKey ==
    /\ stack = [d \in Dialects |-> <<NewWhereBuilder(d)>>]
    /\ budget = 0
    /\ absent = FALSE
    /\ rawShort = FALSE
    /\ pq = NoPQ
    /\ \E key \in Keys, defaultOp \in {Op.Eq, Op.Gt, Op.ILike} :
         call = [done |-> FALSE, key |-> key, defaultOp |-> defaultOp,
                 out |-> [field |-> "", operator |-> ""]]

NextKey == CallParseFieldOperator

SpecKey == InitKey /\ [][NextKey]_vars

----------------------------------------------------------------------------
(* ParseSortFields on a list of sort fields written in one of three syntaxes *)

SortLists ==
    UNION {[1..n -> {[field |-> f, direction |-> d] :
                        f \in {"name", "email", "created_at"}, d \in {SortAsc, SortDesc}}] :
           n \in 0..MaxSortLen}

\* an item in the colon notation, "name:desc", or in the prefix notation, "-name"
SortItem(syntax, p) ==
    IF syntax = "prefix" THEN <<IF p.direction = SortDesc THEN "-" ELSE "+", p.field>>
    ELSE <<p.field, ":", IF p.direction = SortDesc THEN "desc" ELSE "asc">>

\* "name:desc,email:asc" (colon), "-name,+email" (prefix) and
\* []string{"name:desc", "email:asc"} (list)
SortInput(syntax, pairs) ==
    LET items == [i \in 1..Len(pairs) |-> SortItem(syntax, pairs[i])]
    IN IF syntax = "list" THEN [kind |-> "[]string", v |-> items]
       ELSE [kind |-> "string", v |-> Join(items, <<",">>)]

CallParseSortFields(syntax) ==
    /\ ~call.done
    /\ call' = [call EXCEPT !.done = TRUE, !.syntax = syntax,
                            !.input = SortInput(syntax, call.pairs),
                            !.out = ParseSortFields(SortInput(syntax, call.pairs))]
    /\ UNCHANGED <<stack, budget, absent, rawShort, pq>>

InitSortParse ==
    /\ stack = [d \in Dialects |-> <<NewWhereBuilder(d)>>]
    /\ budget = 0
    /\ absent = FALSE
    /\ rawShort = FALSE
    /\ pq = NoPQ
    /\ \E pairs \in SortLists :
         call = [done |-> FALSE, pairs |-> pairs, syntax |-> "",
                 input |-> [kind |-> "string", v |-> <<>>], out |-> <<>>]

NextSortParse ==
    \/ CallParseSortFields("colon")
    \/ CallParseSortFields("prefix")
    \/ CallParseSortFields("list")

SpecSortParse == InitSortParse /\ [][NextSortParse]_vars

----------------------------------------------------------------------------
(* ValidateAndBuild on a list of sort fields and a configuration *)

SortFieldLists ==
    UNION {[1..n -> {[Field |-> f, Direction |-> d] :
                        f \in {"name", "created", "forbidden_field"},
                        d \in {SortAsc, SortDesc}}] :
           n \in 0..MaxSortLen}

\* DefaultConfig with its AllowedFields, FieldMappings, MaxSortFields and DefaultSort set
SortConfigs ==
    {[AllowedFields |-> a, FieldMappings |-> m, MaxSortFields |-> n, DefaultSort |-> s] :
        a \in {NoFields,
               [f \in {"name", "created"} |-> TRUE],
               [f \in {"name", "created"} |-> f = "name"]},
        m \in {NoMappings, [f \in {"created"} |-> "created_at"]},
        n \in 1..MaxSortLen,
        s \in {<<>>, <<[Field |-> "created", Direction |-> SortDesc],
                       [Field |-> "id", Direction |-> SortAsc]>>}}

CallValidateAndBuild ==
    /\ ~call.done
    /\ call' = [call EXCEPT !.done = TRUE,
                            !.out = ValidateAndBuild(call.config, call.fields)]
    /\ UNCHANGED <<stack, budget, absent, rawShort, pq>>

InitSort ==
    /\ stack = [d \in Dialects |-> <<NewWhereBuilder(d)>>]
    /\ budget = 0
    /\ absent = FALSE
    /\ rawShort = FALSE
    /\ pq = NoPQ
    /\ \E fields \in SortFieldLists, config \in SortConfigs :
         call = [done |-> FALSE, fields |-> fields, config |-> config,
                 out |-> [err |-> "", nil |-> TRUE, builder |-> NewOrderByBuilder]]

NextSort == CallValidateAndBuild

SpecSort == InitSort /\ [][NextSort]_vars

----------------------------------------------------------------------------
(* The two convenience functions on queries with between keys *)

BetweenPairs ==
    <<[key |-> K.Name, val |-> V.John],
      [key |-> K.ScoreBetween, val |-> V.Ten],
      [key |-> K.PriceBetween, val |-> V.TenTwenty],
      [key |-> K.RangeBetween, val |-> V.TenToThirty]>>

InitBetween ==
    /\ stack = [d \in Dialects |-> <<NewWhereBuilder(d)>>]
    /\ budget = 0
    /\ absent = FALSE
    /\ rawShort = FALSE
    /\ pq = NoPQ
    /\ \E T \in SUBSET {BetweenPairs[i] : i \in 1..Len(BetweenPairs)},
          config \in FilterConfigs :
         call = [done |-> FALSE, values |-> SelectSeq(BetweenPairs, LAMBDA p : p \in T),
                 config |-> config, via |-> "", order |-> <<>>, dialect |-> Postgres,
                 parsed |-> [err |-> "", filters |-> <<>>],
                 out |-> [err |-> "", nil |-> TRUE, builder |-> NewWhereBuilder(Postgres)]]

SpecBetween == InitBetween /\ [][NextFilter]_vars

----------------------------------------------------------------------------
(* EncodeCursor and DecodeCursor: a cursor made from a row and sent back, or a *)
(* string of the client's own                                                  *)

CallEncodeCursor ==
    /\ call.stage = "row"
    /\ call' = [call EXCEPT !.stage = "encoded",
                            !.encoded = EncodeCursor(call.timestamp, call.id)]
    /\ UNCHANGED <<stack, budget, absent, rawShort, pq>>

CallDecodeCursor ==
    /\ call.stage \in {"encoded", "sent"}
    /\ \E converted \in {-2147483647 - 1, 2147483647, 0} :
         call' = [call EXCEPT !.stage = "decoded",
                              !.from = call.stage,
                              !.out = DecodeCursor(call.encoded, converted)]
    /\ UNCHANGED <<stack, budget, absent, rawShort, pq>>

InitCursor ==
    /\ stack = [d \in Dialects |-> <<NewWhereBuilder(d)>>]
    /\ budget = 0
    /\ absent = FALSE
    /\ rawShort = FALSE
    /\ pq = NoPQ
    /\ \/ \E timestamp \in {Nil, IntV(7), StrV(3), [t |-> "time", x |-> 5],
                              [t |-> "time", x |-> 6], [t |-> "nan", x |-> 0]},
              id \in {IntV(i) : i \in 0..MaxId} \cup
                     {IntV(-1), IntV(2147483647), [t |-> "int64", x |-> 0], StrV(9), Nil} :
             call = [stage |-> "row", from |-> "", timestamp |-> timestamp, id |-> id,
                     encoded |-> EmptyString,
                     out |-> [err |-> "", nil |-> TRUE, cursor |-> NilCursor]]
       \/ \E valid \in BOOLEAN, kind \in {"object", "null", "other", "garbage", "empty"},
              ts \in {[t |-> "string", x |-> 1005], [t |-> "absent", x |-> 0]},
              id \in {[t |-> "number", x |-> 42], [t |-> "string", x |-> 9],
                      [t |-> "null", x |-> 0], [t |-> "absent", x |-> 0]} :
             /\ valid \/ kind = "garbage"
             /\ kind # "object" => ts.t = "absent" /\ id.t = "absent"
             /\ call = [stage |-> "sent", from |-> "", timestamp |-> Nil, id |-> Nil,
                        encoded |-> IF kind = "empty" THEN EmptyString
                                    ELSE [valid |-> valid,
                                          doc |-> [kind |-> kind, timestamp |-> ts, id |-> id]],
                        out |-> [err |-> "", nil |-> TRUE, cursor |-> NilCursor]]

NextCursor ==
    \/ CallEncodeCursor
    \/ CallDecodeCursor

SpecCursor == InitCursor /\ [][NextCursor]_vars

----------------------------------------------------------------------------
(* StandardDB.WithTransaction, step by step.  fn is the loop of RunInTransaction *)
(* over its operations, each of which returns nil, returns an error or panics; *)
(* the database makes BeginTx, Commit and Rollback succeed or fail.            *)

\* tx, err := d.BeginTx(ctx, opts); if err != nil { return err }
TxBeginTx ==
    /\ call.pc = "call"
    /\ call' = IF call.beginOk
               THEN [call EXCEPT !.pc = "fn"]
               ELSE [call EXCEPT !.pc = "returned", !.result = "begin error"]
    /\ UNCHANGED <<stack, budget, absent, rawShort, pq>>

\* one turn of fn's loop, and what WithTransaction goes on to when fn is over
TxOperation ==
    /\ call.pc = "fn"
    /\ call' = IF call.i > Len(call.ops)
               THEN [call EXCEPT !.pc = "commit", !.fn = "nil"]
               ELSE CASE call.ops[call.i] = "nil" -> [call EXCEPT !.i = @ + 1]
                      [] call.ops[call.i] = "error" ->
                            [call EXCEPT !.pc = "rollback", !.fn = "error"]
                      [] OTHER -> [call EXCEPT !.pc = "recover", !.fn = "panic"]
    /\ UNCHANGED <<stack, budget, absent, rawShort, pq>>

\* a commit that is never made
TxCommitSkipped ==
    /\ call.pc = "commit"
    /\ call' = [call EXCEPT !.pc = "returned", !.result = "nil"]
    /\ UNCHANGED <<stack, budget, absent, rawShort, pq>>

\* if err := tx.Commit(ctx); err != nil { return WrapTransactionError(...) }; return nil
TxCommit ==
    /\ call.pc = "commit"
    /\ call' = [call EXCEPT !.pc = "returned", !.commits = @ + 1,
                            !.result = IF call.commitOk THEN "nil" ELSE "commit error"]
    /\ UNCHANGED <<stack, budget, absent, rawShort, pq>>

\* if rbErr := tx.Rollback(ctx); rbErr != nil { return fmt.Errorf(...) }; return err
TxRollback ==
    /\ call.pc = "rollback"
    /\ call' = [call EXCEPT !.pc = "returned", !.rollbacks = @ + 1,
                            !.result = IF call.rollbackOk THEN "fn error"
                                       ELSE "fn error, rollback failed"]
    /\ UNCHANGED <<stack, budget, absent, rawShort, pq>>

\* the deferred function: recover, Rollback with its error dropped, panic again
TxRecover ==
    /\ call.pc = "recover"
    /\ call' = [call EXCEPT !.pc = "panicked", !.rollbacks = @ + 1, !.result = "panic"]
    /\ UNCHANGED <<stack, budget, absent, rawShort, pq>>

RECURSIVE Operations(_)
Operations(n) ==
    IF n = 0 THEN {<<>>}
    ELSE Operations(n - 1) \cup
         {Append(ops, o) : ops \in Operations(n - 1), o \in {"nil", "error", "panic"}}

InitTx ==
    /\ stack = [d \in Dialects |-> <<NewWhereBuilder(d)>>]
    /\ budget = 0
    /\ absent = FALSE
    /\ rawShort = FALSE
    /\ pq = NoPQ
    /\ \E ops \in Operations(MaxOps), beginOk \in BOOLEAN, commitOk \in BOOLEAN,
          rollbackOk \in BOOLEAN :
           call = [pc |-> "call", ops |-> ops, i |-> 1, beginOk |-> beginOk,
                   commitOk |-> commitOk, rollbackOk |-> rollbackOk,
                   commits |-> 0, rollbacks |-> 0, fn |-> "", result |-> ""]

NextTx ==
    \/ TxBeginTx
    \/ TxOperation
    \/ TxCommit
    \/ TxRollback
    \/ TxRecover

\* the goroutine of the call keeps running, and every operation of fn ends
SpecTx == InitTx /\ [][NextTx]_vars /\ WF_vars(NextTx)

----------------------------------------------------------------------------
(* QueryPaginated over a table of rows, newest first *)

CallQueryPaginated ==
    /\ ~call.done
    /\ call' = [call EXCEPT !.done = TRUE,
                            !.yielded = QueryAll(call.table, call.limitMarker, call.limit + 1),
                            !.out = QueryPaginated(call.table, call.limitMarker, call.limit,
                                                   call.hasGetCursorFields)]
    /\ UNCHANGED <<stack, budget, absent, rawShort, pq>>

InitPaginated ==
    /\ stack = [d \in Dialects |-> <<NewWhereBuilder(d)>>]
    /\ budget = 0
    /\ absent = FALSE
    /\ rawShort = FALSE
    /\ pq = NoPQ
    /\ \E n \in 0..MaxRows, limit \in 0..MaxLimit, limitMarker \in BOOLEAN,
          hasGetCursorFields \in BOOLEAN :
           call = [done |-> FALSE,
                   table |-> [i \in 1..n |-> [CreatedAt |-> [t |-> "time", x |-> MaxRows - i],
                                              ID |-> IntV(i)]],
                   limit |-> limit, limitMarker |-> limitMarker,
                   hasGetCursorFields |-> hasGetCursorFields, yielded |-> <<>>,
                   out |-> [panic |-> FALSE, HasMore |-> FALSE, Items |-> <<>>,
                            NextCursor |-> [nil |-> TRUE, s |-> EmptyString]]]

NextPaginated == CallQueryPaginated

SpecPaginated == InitPaginated /\ [][NextPaginated]_vars

----------------------------------------------------------------------------
(* AdjustSQL on the conditions "c = $1 AND c = $2 AND ..." of a query, written in *)
(* rising or falling order of their placeholders                                *)

CallAdjustSQL ==
    /\ ~call.done
    /\ call' = [call EXCEPT !.done = TRUE,
                            !.out = AdjustSQL(call.dialect, call.sql, call.startIndex)]
    /\ UNCHANGED <<stack, budget, absent, rawShort, pq>>

InitAdjust ==
    /\ stack = [d \in Dialects |-> <<NewWhereBuilder(d)>>]
    /\ budget = 0
    /\ absent = FALSE
    /\ rawShort = FALSE
    /\ pq = NoPQ
    /\ \E dialect \in Dialects, n \in 0..MaxPlaceholders, rising \in BOOLEAN,
          startIndex \in 0..MaxStartIndex :
           call = [done |-> FALSE, dialect |-> dialect, startIndex |-> startIndex,
                   sql |-> Join([i \in 1..n |->
                                   <<Txt("c"), SP, Txt("="), SP,
                                     IF dialect = Postgres
                                     THEN Dollar(IF rising THEN i ELSE n + 1 - i)
                                     ELSE Qmark>>],
                                <<SP, Txt("AND"), SP>>),
                   out |-> <<>>]

NextAdjust == CallAdjustSQL

SpecAdjust == InitAdjust /\ [][NextAdjust]_vars

----------------------------------------------------------------------------
(* SearchQuery and PaginationQuery on a builder made by the caller *)

CallSearchQuery(passFilters, n, searchText) ==
    /\ ~call.done
    /\ ~passFilters => stack = [d \in Dialects |-> <<NewWhereBuilder(d)>>]
    /\ call' = [done |-> TRUE, op |-> "SearchQuery", passed |-> passFilters,
                columns |-> n, searchText |-> searchText, limit |-> 0, offset |-> 0,
                base |-> <<>>, orderBy |-> "",
                out |-> [d \in Dialects |->
                           Build(SearchQuery(d, SubSeq(<<"name", "email">>, 1, n), searchText,
                                             IF passFilters THEN stack[d][1] ELSE NilWhere))]]
    /\ UNCHANGED <<stack, budget, absent, rawShort, pq>>

CallPaginationQuery(passWhere, baseQuery, limit, offset, orderBy) ==
    /\ ~call.done
    /\ ~passWhere => stack = [d \in Dialects |-> <<NewWhereBuilder(d)>>]
    /\ call' = [done |-> TRUE, op |-> "PaginationQuery", passed |-> passWhere,
                columns |-> 0, searchText |-> StrV(0), limit |-> limit, offset |-> offset,
                base |-> baseQuery, orderBy |-> orderBy,
                out |-> [d \in Dialects |->
                           PaginationQuery(d, baseQuery,
                                           IF passWhere THEN stack[d][1] ELSE NilWhere,
                                           limit, offset, orderBy)]]
    /\ UNCHANGED <<stack, budget, absent, rawShort, pq>>

InitEnhanced ==
    /\ stack = [d \in Dialects |-> <<NewWhereBuilder(d)>>]
    /\ budget = MaxEnhancedCalls
    /\ absent = FALSE
    /\ rawShort = FALSE
    /\ pq = NoPQ
    /\ call = NoCall

NextEnhanced ==
    \/ ~call.done /\ CallEqual("status", Arg(1))
    \/ ~call.done /\ CallIn("role", <<Arg(1), Arg(2)>>)
    \/ \E passFilters \in BOOLEAN, n \in 0..MaxColumns, searchText \in {StrV(0), StrV(1)} :
          CallSearchQuery(passFilters, n, searchText)
    \/ \E passWhere \in BOOLEAN,
          baseQuery \in {<<Txt("SELECT * FROM users")>>,
                         <<Txt("SELECT * FROM users"), SP, Txt("WHERE"), SP, Txt("active")>>},
          limit \in {0, 10}, offset \in {0, 20}, orderBy \in {"", "name ASC"} :
          CallPaginationQuery(passWhere, baseQuery, limit, offset, orderBy)

SpecEnhanced == InitEnhanced /\ [][NextEnhanced]_vars

----------------------------------------------------------------------------
(* ApplyFiltersToBuilder on a list of filters, each operator with a value of the *)
(* type ParseURLValues gives it                                                *)

\* a filter on the column name with the operator op
FilterWith(op) ==
    [Field |-> "name", Operator |-> op,
     Value |-> CASE op \in {Op.Between, Op.In, Op.NotIn} -> StringsV
                 [] op \in {Op.IsNull, Op.IsNotNull} -> Nil
                 [] op \in {Op.Gt, Op.Gte, Op.Lt, Op.Lte} -> IntV(18)
                 [] OTHER -> StrV(1),
     Strings |-> IF op \in {Op.Between, Op.In, Op.NotIn} THEN <<StrV(10), StrV(20)>> ELSE <<>>]

CallApplyFiltersToBuilder ==
    /\ ~call.done
    /\ call' = [call EXCEPT !.done = TRUE,
                            !.out = ApplyFiltersToBuilder(call.filters,
                                                          NewWhereBuilder(call.dialect))]
    /\ UNCHANGED <<stack, budget, absent, rawShort, pq>>

InitApply ==
    /\ stack = [d \in Dialects |-> <<NewWhereBuilder(d)>>]
    /\ budget = 0
    /\ absent = FALSE
    /\ rawShort = FALSE
    /\ pq = NoPQ
    /\ \E dialect \in Dialects, n \in 0..MaxApplied :
         \E ops \in [1..n -> {Op[o] : o \in DOMAIN Op}] :
           call = [done |-> FALSE, dialect |-> dialect,
                   filters |-> [i \in 1..n |-> FilterWith(ops[i])],
                   out |-> [err |-> "", builder |-> NewWhereBuilder(dialect)]]

NextApply == CallApplyFiltersToBuilder

SpecApply == InitApply /\ [][NextApply]_vars

----------------------------------------------------------------------------
(* Properties *)

\* the placeholders "$n" of sql, in the order of the text
Placeholders(sql) == SelectSeq(sql, LAMBDA tok : tok.k = "$")
\* the set of their numbers
PlaceholderNumbers(sql) == {sql[i].n : i \in {j \in 1..Len(sql) : sql[j].k = "$"}}
\* no number is used by two placeholders
NoRepeats(sql) == Cardinality(PlaceholderNumbers(sql)) = Len(Placeholders(sql))
\* the placeholders of sql are $(m+1) .. $(m+j), in this order, the q-th bound to vals[q]
Sequential(sql, m, vals) ==
    /\ Len(Placeholders(sql)) = Len(vals)
    /\ \A q \in 1..Len(vals) :
          Placeholders(sql)[q].n = m + q /\ Placeholders(sql)[q].v = vals[q]

PgBuilder == stack[Postgres][1]
PgBuilt == Build(PgBuilder)

\* C1 as stated: after any sequence of builder calls (Raw fragments and Or groups
\* included) the placeholder numbers in the SQL of Build on the Postgres dialect are
\* exactly 1..k, k the number of parameters, none of them twice
C1_Original ==
    /\ PlaceholderNumbers(PgBuilt.sql) = 1..Len(PgBuilt.params)
    /\ NoRepeats(PgBuilt.sql)

\* C1 amended: the same, provided no Raw call was given more parameters than its
\* fragment holds "?" markers
C1_PlaceholdersGapless == ~rawShort => C1_Original

\* C1 witness: a Raw fragment with parameters and an Or group in one builder, three
\* or more parameters
C1_Witness ==
    /\ ~rawShort
    /\ Len(PgBuilder.params) >= 3
    /\ \E i \in 1..Len(PgBuilder.conditions) : PgBuilder.conditions[i].SQL[1] = Txt("(")
    /\ \E i \in 1..Len(PgBuilder.conditions) :
          Strip(PgBuilder.conditions[i].SQL) =
             <<Txt("age"), SP, Txt("BETWEEN"), SP, Dollar(i + i - 1), SP, Txt("AND"), SP,
               Dollar(i + i)>>

\* the parameters of the conditions before the i-th
RECURSIVE ParamsBefore(_, _)
ParamsBefore(conds, i) ==
    IF i <= 1 THEN 0 ELSE conds[i-1].ParamCount + ParamsBefore(conds, i-1)

\* the parameters held so far by the builder and the Or groups open on it, down to
\* the i-th level
RECURSIVE ParamsHeld(_)
ParamsHeld(i) ==
    IF i = 0 THEN 0 ELSE Len(stack[Postgres][i].params) + ParamsHeld(i - 1)

\* C9: on Postgres an Or group opened when the builder holds m parameters (those of
\* the groups still open around it included) numbers the j placeholders of its
\* sub-conditions $(m+1) .. $(m+j); in the finished builder every condition, the
\* groups included, holds the placeholders that follow those of the conditions before
\* it, bound to the parameters at the same positions
C9_OrNumbering ==
    /\ \A i \in 2..Depth :
          LET sub == stack[Postgres][i]
              m == ParamsHeld(i - 1)
          IN /\ Sequential(Build(sub).sql, m, sub.params)
             /\ sub.paramIndex = m + Len(sub.params)
    /\ \A i \in 1..Len(PgBuilder.conditions) :
          LET off == ParamsBefore(PgBuilder.conditions, i)
              cnt == PgBuilder.conditions[i].ParamCount
          IN Sequential(PgBuilder.conditions[i].SQL, off,
                        SubSeq(PgBuilder.params, off + 1, off + cnt))
    /\ PgBuilder.paramIndex = Len(PgBuilder.params)

\* C9 witness: Equal("a", x); Or(two conditions); Equal("b", y)
C9_Witness ==
    /\ Depth = 1
    /\ Len(PgBuilder.conditions) = 3
    /\ Len(PgBuilder.params) = 4
    /\ Strip(PgBuilder.conditions[1].SQL) = <<Txt("a"), SP, Txt("="), SP, Dollar(1)>>
    /\ PgBuilder.conditions[2].SQL[1] = Txt("(")
    /\ PlaceholderNumbers(PgBuilder.conditions[2].SQL) = {2, 3}
    /\ Contains(PgBuilder.conditions[2].SQL, "OR")
    /\ Strip(PgBuilder.conditions[3].SQL) = <<Txt("b"), SP, Txt("="), SP, Dollar(4)>>

\* C10: a builder call given an absent value (nil, "", an empty list, a nil bound)
\* leaves conditions, parameters and counter of every builder as they were
C10_AbsentIsNoOp == [][absent' => stack' = stack]_vars

\* C10 witness: an absent value was given to a builder that holds a condition
C10_Witness == absent /\ HasConditions(PgBuilder)

----------------------------------------------------------------------------
(* Properties of ProcessQuery *)

\* sub occurs in sql as a run of consecutive tokens
ContainsSeq(sql, sub) ==
    \E i \in 0..(Len(sql) - Len(sub)) : SubSeq(sql, i + 1, i + Len(sub)) = sub

\* sql without its markers
RemoveMarkers(sql) == SelectSeq(sql, LAMBDA tok : ~HasSlash(tok))

\* the placeholder numbers never decrease along the text
Ascending(sql) ==
    \A q \in 1..(Len(Placeholders(sql)) - 1) :
        Placeholders(sql)[q].n <= Placeholders(sql)[q+1].n

PgOut == pq.out[Postgres]

\* the builder handed to ProcessQuery holds conditions
PQHasWhere == pq.passWhere /\ HasConditions(PgBuilder)
\* the cursor condition is built
PQHasCursor == pq.cursor # NilCursor /\ Contains(pq.tpl[Postgres], CursorMarker)
\* the LIMIT is built
PQHasLimit == pq.limit > 0 /\ Contains(pq.tpl[Postgres], LimitMarker)
\* a sort with fields is handed to ProcessQuery
PQHasSort == pq.orderBy # NilOrderBy /\ HasFields(pq.orderBy)

\* C2 as stated: on Postgres, with N pre-existing parameters, the placeholders of the
\* result are $1..$N of the template and then $(N+1), $(N+2), ... without a gap, in
\* the order cursor, WHERE, LIMIT; and the parameters are the N originals, the cursor
\* values, the WHERE values and the limit
C2_GaplessAfterPre ==
    pq.done =>
        /\ PgOut.params =
              PreParams(pq.pre)
              \o (IF PQHasCursor THEN <<pq.cursor.CreatedAt, pq.cursor.ID>> ELSE <<>>)
              \o (IF PQHasWhere THEN PgBuilder.params ELSE <<>>)
              \o (IF PQHasLimit THEN <<IntV(pq.limit)>> ELSE <<>>)
        /\ PlaceholderNumbers(PgOut.sql) = 1..Cardinality(PlaceholderNumbers(PgOut.sql))
        /\ Ascending(PgOut.sql)

\* the "?" of sql, in the order of the text
QuestionMarks(sql) == SelectSeq(sql, LAMBDA tok : tok.k = "?")

\* C3 as stated: whatever markers the template holds and whatever is supplied, every
\* returned parameter has a placeholder in the returned SQL, every placeholder has a
\* parameter, and the i-th placeholder slot ($i on Postgres, the i-th "?" on MySQL and
\* SQLite) is bound to the i-th parameter
C3_ParamsMatchPlaceholders ==
    pq.done =>
        \A d \in Dialects :
            LET o == pq.out[d]
            IN IF d = Postgres
               THEN /\ PlaceholderNumbers(o.sql) = 1..Len(o.params)
                    /\ \A i \in 1..Len(o.sql) :
                          (o.sql[i].k = "$" /\ o.sql[i].n \in 1..Len(o.params))
                             => o.params[o.sql[i].n] = o.sql[i].v
               ELSE /\ Len(QuestionMarks(o.sql)) = Len(o.params)
                    /\ \A q \in 1..Len(o.params) : QuestionMarks(o.sql)[q].v = o.params[q]

\* the call of spec.md section 8, property 9: the one condition age > 18, the sort
\* name ASC, limit 10, no pre-existing parameter
C4_Scenario ==
    /\ pq.done
    /\ pq.name = "spec"
    /\ pq.pre = 0
    /\ pq.passWhere
    /\ Strip(PgBuilt.sql) = <<Txt("age"), SP, Txt(">"), SP, Dollar(1)>>
    /\ PgBuilt.params = <<IntV(18)>>
    /\ pq.orderBy = OrderByName
    /\ pq.limit = 10

\* C4 as stated: the call returns "SELECT * FROM users WHERE active=true AND age > $1
\* ORDER BY name ASC LIMIT $2", single blanks between the words, and [18, 10]
C4_Original ==
    C4_Scenario =>
        /\ Strip(PgOut.sql) =
              <<Txt("SELECT * FROM users WHERE active=true"), SP, Txt("AND"), SP, Txt("age"),
                SP, Txt(">"), SP, Dollar(1), SP, Txt("ORDER BY"), SP, Txt("name"), SP,
                Txt("ASC"), SP, Txt("LIMIT"), SP, Dollar(2)>>
        /\ PgOut.params = <<IntV(18), IntV(10)>>

\* C4 amended: the call returns the same words and placeholders with the blanks the
\* substitutions leave, two before AND and three before LIMIT, and [18, 10]
C4_EndToEnd ==
    C4_Scenario =>
        /\ Strip(PgOut.sql) =
              <<Txt("SELECT * FROM users WHERE active=true"), SP, SP, Txt("AND"), SP,
                Txt("age"), SP, Txt(">"), SP, Dollar(1), SP, Txt("ORDER BY"), SP, Txt("name"),
                SP, Txt("ASC"), SP, SP, SP, Txt("LIMIT"), SP, Dollar(2)>>
        /\ PgOut.params = <<IntV(18), IntV(10)>>

\* C4 witness: the call has been made
C4_Witness == C4_Scenario

\* C5 as stated: with the orderby marker in the template, a sort with fields replaces
\* the static ORDER BY clause before the marker (the static clause is gone, the new
\* one is there); without such a sort one marker is removed and the static clause
\* stays as written
C5_SortReplacesStatic ==
    (pq.done /\ Contains(pq.tpl[Postgres], OrderByMarker) /\ pq.static # <<>>) =>
        IF PQHasSort
        THEN /\ ~ContainsSeq(PgOut.sql, pq.static)
             /\ ContainsSeq(PgOut.sql, <<Txt("ORDER BY"), SP>> \o OrderByBuild(pq.orderBy))
        ELSE /\ ContainsSeq(PgOut.sql, pq.static)
             /\ CountK(PgOut.sql, OrderByMarker) = CountK(pq.tpl[Postgres], OrderByMarker) - 1

\* C6 as stated: with the orderby marker in the template and a sort with fields, the
\* result holds "ORDER BY <the fields>" and no orderby marker, whether or not a
\* static ORDER BY stands before the marker
C6_SortAlwaysInjected ==
    (pq.done /\ Contains(pq.tpl[Postgres], OrderByMarker) /\ PQHasSort) =>
        /\ ContainsSeq(PgOut.sql, <<Txt("ORDER BY"), SP>> \o OrderByBuild(pq.orderBy))
        /\ ~Contains(PgOut.sql, OrderByMarker)

\* C7 as stated: on MySQL and SQLite the result holds no "$N" at all, and one "?" per
\* parameter, the q-th "?" bound to the q-th parameter
C7_QuestionMarksOnly ==
    pq.done =>
        \A d \in {MySQL, SQLite} :
            LET o == pq.out[d]
            IN /\ PlaceholderNumbers(o.sql) = {}
               /\ Len(QuestionMarks(o.sql)) = Len(o.params)
               /\ \A q \in 1..Len(o.params) : QuestionMarks(o.sql)[q].v = o.params[q]

\* nothing dynamic is supplied: no conditions, no cursor, no sort, limit 0
PQNothing ==
    /\ ~PQHasWhere
    /\ pq.cursor = NilCursor
    /\ ~PQHasSort
    /\ pq.limit = 0

\* C8: a template with all four markers, processed with nothing dynamic, comes back
\* with its markers removed and the rest as it was, the parameters being the
\* pre-existing ones; a template without markers comes back as it was, whatever is
\* supplied
C8_NothingDynamic ==
    pq.done =>
        \A d \in Dialects :
            /\ (PQNothing /\ \A m \in Markers : Contains(pq.tpl[d], m))
                  => /\ pq.out[d].sql = RemoveMarkers(pq.tpl[d])
                     /\ pq.out[d].params = PreParams(pq.pre)
            /\ (\A m \in Markers : ~Contains(pq.tpl[d], m))
                  => pq.out[d].sql = pq.tpl[d]

\* C8 witness: the template of example/sqlc/queries.sql, with all four markers and a
\* pre-existing parameter, processed with nothing dynamic
C8_Witness == pq.done /\ pq.name = "example" /\ pq.pre = 1 /\ PQNothing

----------------------------------------------------------------------------
(* Invariants of the builder *)

\* the highest placeholder number emitted so far by the Postgres builder and the Or
\* groups open on it, 0 if none was
HighestEmitted ==
    LET ns == UNION {PlaceholderNumbers(Build(stack[Postgres][i]).sql) : i \in 1..Depth}
    IN IF ns = {} THEN 0 ELSE CHOOSE n \in ns : \A k \in ns : k <= n

\* every builder holds as many parameters as its conditions count
ParamsAreCounted ==
    \A d \in Dialects : \A i \in 1..Depth :
        Len(stack[d][i].params) =
           ParamsBefore(stack[d][i].conditions, Len(stack[d][i].conditions) + 1)

\* C11 as stated: after any sequence of builder calls, Raw and Or included, the
\* parameter list is as long as the sum of the conditions' ParamCount, and on
\* Postgres the running counter of the builder in use is the highest placeholder
\* number emitted so far
C11_Original ==
    /\ ParamsAreCounted
    /\ Top(Postgres).paramIndex = HighestEmitted

\* C11 amended: the same, provided no Raw call was given more parameters than its
\* fragment holds "?" markers
C11_CounterInvariant == ~rawShort => C11_Original

\* C11 witness: a builder that holds a Raw fragment with two parameters and a closed Or
\* group, with the counter at 3
C11_Witness ==
    /\ ~rawShort
    /\ Depth = 1
    /\ PgBuilder.paramIndex = 3
    /\ \E i \in 1..Len(PgBuilder.conditions) : PgBuilder.conditions[i].SQL[1] = Txt("(")
    /\ \E i \in 1..Len(PgBuilder.conditions) :
          /\ PgBuilder.conditions[i].ParamCount = 2
          /\ PgBuilder.conditions[i].SQL[1] = Txt("age")
          /\ Contains(PgBuilder.conditions[i].SQL, "BETWEEN")

----------------------------------------------------------------------------
(* The three dialects side by side *)

\* sql with every "$N" written as "?", bound to the same value
AsPositional(sql) ==
    [i \in 1..Len(sql) |-> IF sql[i].k = "$" THEN Bind(Qmark, sql[i].v) ELSE sql[i]]

\* sql with every "<column> ILIKE <placeholder>" written as
\* "LOWER(<column>) LIKE LOWER(<placeholder>)"
RECURSIVE IlikeAsLower(_)
IlikeAsLower(sql) ==
    IF Len(sql) = 0 THEN <<>>
    ELSE IF Len(sql) >= 5 /\ sql[3].k = "ILIKE"
    THEN <<Txt("LOWER("), sql[1], Txt(")"), SP, Txt("LIKE"), SP, Txt("LOWER("), sql[5],
           Txt(")")>> \o IlikeAsLower(SubSeq(sql, 6, Len(sql)))
    ELSE <<sql[1]>> \o IlikeAsLower(Tail(sql))

\* C12: the same calls made on a Postgres, a MySQL and a SQLite builder give SQL that
\* is the same once "$N" is read as "?" and "c ILIKE p" as "LOWER(c) LIKE LOWER(p)":
\* same keywords, same AND/OR structure, every placeholder bound to the same value,
\* and the same parameter list; this for the builders of open Or groups too
C12_DialectsAgree ==
    \A d \in {MySQL, SQLite} : \A i \in 1..Depth :
        /\ Build(stack[d][i]).sql = AsPositional(IlikeAsLower(Build(stack[Postgres][i]).sql))
        /\ Build(stack[d][i]).params = Build(stack[Postgres][i]).params
        /\ stack[d][i].paramIndex = stack[Postgres][i].paramIndex

\* C12 witness: an ILike condition and an Or group with a parameter, built in the
\* three dialects
C12_Witness ==
    /\ Depth = 1
    /\ Contains(PgBuilt.sql, "ILIKE")
    /\ Contains(Build(stack[MySQL][1]).sql, "LOWER(")
    /\ Contains(Build(stack[SQLite][1]).sql, "LOWER(")
    /\ \E i \in 1..Len(PgBuilder.conditions) : PgBuilder.conditions[i].SQL[1] = Txt("(")
    /\ Len(PgBuilt.params) = 2

----------------------------------------------------------------------------
(* Properties of CombineConditions *)

\* the parameters of the builders handed to CombineConditions, in their order
RECURSIVE AllParams(_)
AllParams(builders) ==
    IF Len(builders) = 0 THEN <<>>
    ELSE (IF builders[1] = NilWhere THEN <<>> ELSE Build(builders[1]).params)
         \o AllParams(Tail(builders))

\* C13 as stated: on Postgres, whatever the numbers of parameters of the builders,
\* the combined SQL holds each of $1 .. $k once, k the total of the parameters, in
\* the order of the builders, the parameters are those of the builders in their
\* order, and $i is bound to the i-th of them
C13_CombineRenumbers ==
    call.done =>
        LET out == Build(call.out[Postgres])
        IN /\ out.params = AllParams(call.builders[Postgres])
           /\ Sequential(out.sql, 0, out.params)

----------------------------------------------------------------------------
(* Values and SQL text *)

\* C14: two runs that make the same builder calls and the same ProcessQuery call, in
\* the three dialects, and are given other values (condition values, cursor values,
\* a positive limit) have the same SQL text, character for character, in every
\* builder and in the result of ProcessQuery, and parameter lists of the same length
C14_ValuesStayOutOfSQL ==
    /\ \A d \in Dialects : \A i \in 1..Depth :
          /\ Strip(Build(stack[d][i]).sql) = Strip(Build(call.twin[d][i]).sql)
          /\ Len(stack[d][i].params) = Len(call.twin[d][i].params)
    /\ call.done =>
          \A d \in Dialects :
              /\ Strip(call.out[d].sql) = Strip(call.other[d].sql)
              /\ Len(call.out[d].params) = Len(call.other[d].params)

\* C14 witness: ProcessQuery was called in both runs on builders with conditions, and
\* no parameter after the pre-existing ones is the same in the two runs
C14_Witness ==
    /\ call.done
    /\ HasConditions(PgBuilder)
    /\ \A d \in Dialects :
          /\ Len(call.out[d].params) >= 4
          /\ \A i \in 1..Len(call.out[d].params) :
                call.out[d].params[i] = call.other[d].params[i] => i <= call.pre

----------------------------------------------------------------------------
(* Properties of the filter parser *)

\* the field a key stands for under a configuration
FieldOf(pair, config) ==
    LET f == parseFieldOperator(pair.key, config.DefaultOperator).field
    IN IF f \in DOMAIN config.FieldMappings THEN config.FieldMappings[f] ELSE f

\* the positions of the query whose key stands for an allowed field
AllowedKeys(values, config) ==
    {i \in 1..Len(values) :
        DOMAIN config.AllowedFields = {} \/ AllowedField(config, FieldOf(values[i], config))}

\* the columns named in the conditions of a builder
ColumnsNamed(w) ==
    UNION {{w.conditions[i].SQL[j].k : j \in 1..Len(w.conditions[i].SQL)} :
              i \in 1..Len(w.conditions)}

\* the filters and the WHERE clause hold allowed fields only
OnlyAllowed ==
    /\ \A i \in 1..Len(call.parsed.filters) :
         AllowedField(call.config, call.parsed.filters[i].Field)
    /\ ~call.out.nil =>
         \A i \in 1..Len(call.values) :
            FieldOf(call.values[i], call.config) \in ColumnsNamed(call.out.builder)
               => i \in AllowedKeys(call.values, call.config)

\* C15: with a non-empty AllowedFields every parsed filter has an allowed field and
\* the WHERE clause names no other column, and the keys of other fields do not fail
\* the parse: the count error is raised only when the keys of allowed fields alone
\* exceed MaxFilters
C15_AllowListDrops ==
    (call.done /\ DOMAIN call.config.AllowedFields # {}) =>
        /\ OnlyAllowed
        /\ call.parsed.err = TooMany =>
             Cardinality(AllowedKeys(call.values, call.config)) > call.config.MaxFilters

\* the half of C15 that the parser keeps in every run
C15_OnlyAllowed == (call.done /\ DOMAIN call.config.AllowedFields # {}) => OnlyAllowed

\* the positions of the query whose key yields a filter: a value that is not empty
\* and converts, for an allowed field
Yielding(values, config) ==
    {i \in AllowedKeys(values, config) :
        /\ values[i].val.s # StrV(0)
        /\ convertValue(values[i].val,
                        parseFieldOperator(values[i].key, config.DefaultOperator).operator).err = ""}

AllYield == Yielding(call.values, call.config) = 1..Len(call.values)

\* the claim as stated: MaxFilters keys parse, MaxFilters+1 keys fail on the count
C16_Original ==
    call.done =>
        /\ Len(call.values) = call.config.MaxFilters => call.parsed.err = ""
        /\ Len(call.values) = call.config.MaxFilters + 1 =>
             call.parsed.err = TooMany /\ call.parsed.filters = <<>>

\* C16: a query of at most MaxFilters distinct keys never fails on the count, and
\* gives MaxFilters filters when it has MaxFilters keys that each yield one; a query
\* of MaxFilters+1 distinct keys that each yield a filter fails on the count, with no
\* filter list and no builder
C16_MaxFiltersBoundary ==
    call.done =>
        /\ Len(call.values) <= call.config.MaxFilters => call.parsed.err # TooMany
        /\ (Len(call.values) = call.config.MaxFilters /\ AllYield) =>
             call.parsed.err = "" /\ Len(call.parsed.filters) = call.config.MaxFilters
        /\ (Len(call.values) = call.config.MaxFilters + 1 /\ AllYield) =>
             call.parsed.err = TooMany /\ call.parsed.filters = <<>> /\ call.out.nil

\* three keys that each yield a filter, parsed under a limit of two
C16_Witness ==
    /\ call.done
    /\ call.config.MaxFilters = 2
    /\ Len(call.values) = 3
    /\ AllYield
    /\ call.parsed.err = TooMany

----------------------------------------------------------------------------
(* The order of the filters *)

\* the order of the query as written
Written(values) == [i \in 1..Len(values) |-> i]

\* name=john&age[gt]=18&status[in]=active,pending under the default configuration,
\* its limit no lower than the number of keys
C17_Example ==
    /\ call.values = PairsAt({1, 2, 3})
    /\ call.dialect = Postgres
    /\ call.config.AllowedFields = NoFields
    /\ call.config.FieldMappings = NoMappings
    /\ call.config.MaxFilters >= 3

C17_ExampleSQL ==
    <<Txt("name"), SP, Txt("="), SP, Dollar(1), SP, Txt("AND"), SP,
      Txt("age"), SP, Txt(">"), SP, Dollar(2), SP, Txt("AND"), SP,
      Txt("status"), SP, Txt("IN"), SP, Txt("("), Dollar(3), Txt(","), SP, Dollar(4), Txt(")")>>

\* C17: the builder that BuildFromQueryString or BuildFromRequest returns holds the
\* filters in the order in which the query writes their keys, whatever the run; for
\* name=john&age[gt]=18&status[in]=active,pending on Postgres it is
\* name = $1 AND age > $2 AND status IN ($3, $4) with [john, 18, active, pending]
C17_QueryOrder ==
    (call.done /\ ~call.out.nil) =>
        LET inOrder == BuildFrom(ParseURLValues(call.values, Written(call.values), call.config),
                                 call.dialect)
            built == Build(call.out.builder)
        IN /\ ~inOrder.nil => built = Build(inOrder.builder)
           /\ C17_Example =>
                /\ Strip(built.sql) = C17_ExampleSQL
                /\ built.params = <<StrV(1), IntV(18), StrV(31), StrV(32)>>

\* the run of the example in which the keys are visited as they are written
C17_InOrderRun ==
    /\ call.done
    /\ C17_Example
    /\ call.order = Written(call.values)
    /\ Strip(Build(call.out.builder).sql) = C17_ExampleSQL
    /\ Build(call.out.builder).params = <<StrV(1), IntV(18), StrV(31), StrV(32)>>

----------------------------------------------------------------------------
(* Properties of parseFieldOperator *)

\* the key is of the form field[operator]
IsBracketForm(key) == key.open /\ key.closed

\* the text after the last underscore of the key, "" if it has none
AfterLastUnderscore(key) == IF Len(key.parts) >= 2 THEN key.parts[Len(key.parts)] ELSE ""

\* the operator tokens of the underscore form, in lower case
KnownTokens ==
    {"gt", "gte", "lt", "lte", "ne", "neq", "eq", "sw", "startswith", "ew", "endswith",
     "contains", "includes", "notcontains", "doesnotcontain", "notstartswith",
     "doesnotstartswith", "notendswith", "doesnotendwith", "between", "before", "after",
     "in", "notin", "isnull", "null", "isnotnull", "notnull", "like", "ilike"}

\* C20: a key of the bracket form gives the text before the bracket and the operator
\* in it, underscores or not; any other key gives the text before its last underscore
\* and the operator after it only if what follows the last underscore is a known
\* operator token, and otherwise the whole key with the default operator: user_name
\* is the field user_name
C20_UnderscoreForm ==
    call.done =>
        LET key == call.key
            last == AfterLastUnderscore(key)
        IN /\ IsBracketForm(key) =>
                call.out = [field |-> key.before, operator |-> MapOperator(key.inner)]
           /\ (~IsBracketForm(key) /\ call.out.field # key.text) =>
                /\ ToLower(last) \in KnownTokens
                /\ call.out = [field |-> key.front, operator |-> MapOperator(last)]
           /\ (~IsBracketForm(key) /\ ToLower(last) \notin KnownTokens) =>
                call.out = [field |-> key.text, operator |-> call.defaultOp]
           /\ key = K.UserName =>
                call.out = [field |-> "user_name", operator |-> call.defaultOp]

\* user_name parsed under a default operator other than "="
C20_Witness ==
    /\ call.done
    /\ call.key = K.UserName
    /\ call.defaultOp = Op.ILike
    /\ call.out = [field |-> "user_name", operator |-> Op.ILike]

----------------------------------------------------------------------------
(* Properties of the sort parser *)

\* the sort fields a list of pairs stands for
SortFieldsFor(pairs) ==
    [i \in 1..Len(pairs) |-> [Field |-> <<pairs[i].field>>, Direction |-> pairs[i].direction]]

\* C19: written in the colon form, in the prefix form or as a list of colon items, a
\* list of (field, direction) pairs parses to the same list of sort fields, which is
\* the list of the pairs in their order
C19_SyntaxesAgree ==
    call.done =>
        /\ call.out = SortFieldsFor(call.pairs)
        /\ ParseSortFields(SortInput("colon", call.pairs)) = ParseSortFields(SortInput("prefix", call.pairs))
        /\ ParseSortFields(SortInput("colon", call.pairs)) = ParseSortFields(SortInput("list", call.pairs))

\* "-name,+email" parsed to name DESC, email ASC
C19_Witness ==
    /\ call.done
    /\ call.syntax = "prefix"
    /\ call.input.v = <<"-", "name", ",", "+", "email">>
    /\ call.out = <<[Field |-> <<"name">>, Direction |-> SortDesc],
                    [Field |-> <<"email">>, Direction |-> SortAsc]>>

----------------------------------------------------------------------------
(* Properties of ValidateAndBuild *)

\* the field may be sorted by: it is marked in the allow-list, or the list is empty
SortAllowed(c, field) ==
    DOMAIN c.AllowedFields = {}
    \/ (field \in DOMAIN c.AllowedFields /\ c.AllowedFields[field])

\* the column a field is mapped to
SortColumn(c, field) ==
    IF field \in DOMAIN c.FieldMappings THEN c.FieldMappings[field] ELSE field

\* C18: on a list that is not empty ValidateAndBuild returns an error and no builder
\* if the list is longer than MaxSortFields or holds a field that is not allowed, and
\* otherwise a builder whose fields are the fields of the list, mapped, in the order
\* and with the directions of the list
C18_AllOrNothing ==
    (call.done /\ Len(call.fields) > 0) =>
        IF \/ Len(call.fields) > call.config.MaxSortFields
           \/ \E i \in 1..Len(call.fields) : ~SortAllowed(call.config, call.fields[i].Field)
        THEN call.out.nil /\ call.out.err # ""
        ELSE /\ ~call.out.nil
             /\ call.out.err = ""
             /\ call.out.builder.fields =
                  [i \in 1..Len(call.fields) |->
                     [Field |-> SortColumn(call.config, call.fields[i].Field),
                      Direction |-> call.fields[i].Direction]]

\* two allowed fields, one of them mapped, built in their order
C18_Witness ==
    /\ call.done
    /\ Len(call.fields) = 2
    /\ DOMAIN call.config.AllowedFields # {}
    /\ ~call.out.nil
    /\ call.fields[2].Field = "created"
    /\ call.out.builder.fields[1] = [Field |-> "name", Direction |-> SortDesc]
    /\ call.out.builder.fields[2] = [Field |-> "created_at", Direction |-> SortAsc]

----------------------------------------------------------------------------
(* Properties of the conversion for between *)

\* the positions of the query whose key has the between operator, a value that is
\* not empty and an allowed field
BetweenKeys ==
    {i \in AllowedKeys(call.values, call.config) :
        /\ call.values[i].val.s # StrV(0)
        /\ parseFieldOperator(call.values[i].key, call.config.DefaultOperator).operator
              = Op.Between}

\* C21: under between a value of two comma-separated parts converts to the pair of
\* its parts, which is the value of the filter when the parse succeeds; a value of
\* any other number of parts fails to convert, and the parse then fails, on that
\* error when the limit of filters is not reached first, with no filters and no
\* builder
C21_BetweenArity ==
    call.done =>
        \A i \in BetweenKeys :
            LET val == call.values[i].val
                conv == convertValue(val, Op.Between)
            IN IF Len(val.items) = 2
               THEN /\ conv = [err |-> "", value |-> StringsV, strings |-> val.items]
                    /\ call.parsed.err = "" =>
                         \E k \in 1..Len(call.parsed.filters) :
                            /\ call.parsed.filters[k].Field = FieldOf(call.values[i], call.config)
                            /\ call.parsed.filters[k].Operator = Op.Between
                            /\ call.parsed.filters[k].Strings = val.items
               ELSE /\ conv.err # ""
                    /\ call.parsed.err # ""
                    /\ call.parsed.filters = <<>>
                    /\ call.out.nil
                    /\ Len(call.values) <= call.config.MaxFilters =>
                         call.parsed.err = "invalid value for field"

\* name=john&range[between]=10,20,30 with name visited first: the parse fails on the
\* conversion after a filter was made
C21_Witness ==
    /\ call.done
    /\ Len(call.values) = 2
    /\ call.values[call.order[1]].key = K.Name
    /\ call.values[call.order[2]].val = V.TenToThirty
    /\ BetweenKeys = {2}
    /\ call.config.MaxFilters = 2
    /\ call.parsed = [err |-> "invalid value for field", filters |-> <<>>]
    /\ call.out.nil

----------------------------------------------------------------------------
(* The cursor codec *)

\* the value a decoded cursor holds for the ordering value v of the row: the number,
\* the string, or the text of the time
EquivalentTo(v) ==
    CASE v.t = "int" -> [t |-> "float64", x |-> v.x]
      [] v.t = "int64" -> [t |-> "float64 >= 2^31", x |-> v.x]
      [] v.t = "time" -> StrV(1000 + v.x)
      [] OTHER -> v

\* C22: for any ordering value and id, DecodeCursor(EncodeCursor(orderingValue, id))
\* succeeds and yields a cursor whose id is the original id and whose ordering value
\* is equivalent to the original
C22_RoundTrip ==
    (call.stage = "decoded" /\ call.from = "encoded") =>
        /\ call.out.err = ""
        /\ ~call.out.nil
        /\ call.out.cursor.ID = call.id
        /\ call.out.cursor.CreatedAt = EquivalentTo(call.timestamp)

\* a round trip of an int32 id and a time that gives both back
C22_Int32RoundTrip ==
    /\ call.stage = "decoded" /\ call.from = "encoded"
    /\ call.timestamp.t = "time" /\ call.id = IntV(2147483647)
    /\ ~call.out.nil
    /\ call.out.cursor = [CreatedAt |-> StrV(1000 + call.timestamp.x), ID |-> call.id]

\* the bytes are a cursor record: an object with an ordering value and an integer id
WellFormed(doc) ==
    doc.kind = "object" /\ doc.timestamp.t # "absent" /\ doc.id.t = "number"

\* C23: DecodeCursor of the empty string returns no cursor and no error; every other
\* string that is not base64, or whose bytes are not a well-formed cursor record,
\* returns an error and no cursor
C23_DecodeErrors ==
    (call.stage = "decoded" /\ call.from = "sent") =>
        /\ call.encoded = EmptyString => call.out.nil /\ call.out.err = ""
        /\ (call.encoded # EmptyString
               /\ (~call.encoded.valid \/ ~WellFormed(call.encoded.doc))) =>
                   call.out.nil /\ call.out.err # ""

\* the part of C23 that the code keeps: the empty string, and strings that are not
\* base64 or not a JSON object or null
C23_EmptyAndUnreadable ==
    (call.stage = "decoded" /\ call.from = "sent") =>
        /\ call.encoded = EmptyString => call.out.nil /\ call.out.err = ""
        /\ (call.encoded # EmptyString
               /\ (~call.encoded.valid \/ call.encoded.doc.kind \in {"other", "garbage"})) =>
                   call.out.nil /\ call.out.err # ""

----------------------------------------------------------------------------
(* Templates with more than one orderby marker *)

\* strings.Count of the text sub in sql
CountSeq(sql, sub) ==
    Cardinality({i \in 0..(Len(sql) - Len(sub)) : SubSeq(sql, i + 1, i + Len(sub)) = sub})

\* C24: with more than one orderby marker in the template and a sort with fields,
\* only the first occurrence is replaced: the dynamic ORDER BY text stands exactly
\* once in the result, and the later static ORDER BY clause stays as written
C24_FirstMarkerOnly ==
    (pq.done /\ CountK(pq.tpl[Postgres], OrderByMarker) > 1 /\ PQHasSort) =>
        \A d \in Dialects :
            /\ CountSeq(pq.out[d].sql, <<Txt("ORDER BY"), SP>> \o OrderByBuild(pq.orderBy)) = 1
            /\ CountSeq(pq.out[d].sql, pq.static) = CountSeq(pq.tpl[d], pq.static) - 1

\* what the code does with such a template: every static clause followed by a marker
\* is replaced, and no marker is left
C24_EveryMarkerReplaced ==
    (pq.done /\ CountK(pq.tpl[Postgres], OrderByMarker) > 1 /\ PQHasSort) =>
        \A d \in Dialects :
            /\ CountSeq(pq.out[d].sql, <<Txt("ORDER BY"), SP>> \o OrderByBuild(pq.orderBy))
                 = CountK(pq.tpl[d], OrderByMarker)
            /\ CountSeq(pq.out[d].sql, pq.static) = 0
            /\ ~Contains(pq.out[d].sql, OrderByMarker)

----------------------------------------------------------------------------
(* WithTransaction *)

\* control has left the call, by a return or by the panic raised again
TxLeft == call.pc \in {"returned", "panicked"}

\* BeginTx succeeded
TxBegun == call.pc # "call" /\ call.beginOk

TxEndedOnce ==
    (TxBegun /\ TxLeft) =>
        /\ call.commits + call.rollbacks = 1
        /\ call.commits = 1 <=> call.fn = "nil"
        /\ call.rollbacks = 1 <=> call.fn \in {"error", "panic"}
        /\ call.fn = "error" =>
              call.pc = "returned" /\ call.result \in {"fn error", "fn error, rollback failed"}
        /\ call.fn = "panic" => call.pc = "panicked"
        /\ call.result = "nil" => call.commits = 1 /\ call.commitOk

----------------------------------------------------------------------------
(* QueryPaginated *)

Page(limit) ==
    /\ ~call.out.panic
    /\ Len(call.out.Items) <= limit
    /\ call.out.HasMore <=> Len(call.yielded) > limit
    /\ call.out.HasMore =>
          /\ call.out.Items = SubSeq(call.yielded, 1, limit)
          /\ ~call.out.NextCursor.nil
          /\ limit > 0 => call.out.NextCursor.s =
                             EncodeCursor(call.out.Items[limit].CreatedAt,
                                          call.out.Items[limit].ID)
    /\ ~call.out.HasMore => call.out.NextCursor.nil

\* C26: for every limit >= 0 and every number of rows, QueryPaginated returns
\* normally with at most limit items; HasMore is true exactly when the limit+1 query
\* yielded more than limit rows; with HasMore the items are the first limit rows and
\* NextCursor encodes the cursor fields of the last of them; without, no NextCursor
C26_Page == call.done => Page(call.limit)

\* the same for a positive limit and a caller that gives getCursorFields
C26_PositiveLimitPage ==
    (call.done /\ call.limit > 0 /\ call.hasGetCursorFields) => Page(call.limit)

\* a page of a positive limit with more rows behind it
C26_MorePages ==
    /\ call.done /\ call.limit = 2 /\ Len(call.table) = 4 /\ call.hasGetCursorFields
    /\ call.out.HasMore /\ Len(call.out.Items) = 2
    /\ ~call.out.NextCursor.nil

----------------------------------------------------------------------------
(* AdjustSQL *)

\* sql with every placeholder $i written $(i+k) and nothing else changed
Shifted(sql, k) ==
    [j \in 1..Len(sql) |-> IF sql[j].k = "$" THEN [sql[j] EXCEPT !.n = @ + k] ELSE sql[j]]

\* C27: on Postgres AdjustSQL(sql, k) writes every placeholder $i of sql as $(i+k),
\* for any k >= 0 and any number of placeholders, ten or more included, and leaves
\* the rest of the text as it is; on the other dialects it returns sql unchanged
C27_EveryPlaceholderShifted ==
    call.done =>
        call.out = IF call.dialect = Postgres THEN Shifted(call.sql, call.startIndex)
                   ELSE call.sql

\* what holds of the code: the other dialects and the offset 0 give sql back, and on
\* Postgres a text of fewer than ten placeholders, none more than the offset
C27_WhereTheLoopIsRight ==
    (call.done /\ (\/ call.dialect # Postgres
                   \/ call.startIndex = 0
                   \/ CountK(call.sql, "$") <= call.startIndex)) =>
        call.out = IF call.dialect = Postgres THEN Shifted(call.sql, call.startIndex)
                   ELSE call.sql

\* the call of TestParameterAdjuster with the offset 3: "c = $1 AND c = $2" has
\* become "c = $4 AND c = $5"
C27_TestCase ==
    /\ call.done /\ call.dialect = Postgres /\ call.startIndex = 3
    /\ Strip(call.sql) = <<Txt("c"), SP, Txt("="), SP, Dollar(1), SP, Txt("AND"), SP,
                            Txt("c"), SP, Txt("="), SP, Dollar(2)>>
    /\ Strip(call.out) = <<Txt("c"), SP, Txt("="), SP, Dollar(4), SP, Txt("AND"), SP,
                            Txt("c"), SP, Txt("="), SP, Dollar(5)>>

----------------------------------------------------------------------------
(* SearchQuery and PaginationQuery *)

\* the conditions the caller's builder holds, on Postgres
PassedParams == IF call.passed THEN Build(stack[Postgres][1]).params ELSE <<>>

\* the placeholders of sql are $1..$k for the k parameters, each used once and
\* bound to the parameter of its number
OneEach(sql, params) ==
    /\ NoRepeats(sql)
    /\ PlaceholderNumbers(sql) = 1..Len(params)
    /\ \A j \in 1..Len(sql) : sql[j].k = "$" => sql[j].v = params[sql[j].n]

\* C28: on Postgres the builder SearchQuery returns for a non-empty search text over
\* n columns and a filter builder of m parameters renders SQL whose placeholders are
\* $1..$(n+m), each used once, the i-th parameter being the value bound to $i, the
\* search patterns first and the filter values after them
C28_SearchPlaceholders ==
    (call.done /\ call.op = "SearchQuery" /\ call.searchText # StrV(0) /\ call.columns > 0) =>
        /\ call.out[Postgres].params =
              [i \in 1..call.columns |-> SearchPattern(call.searchText, "contains")]
              \o PassedParams
        /\ OneEach(call.out[Postgres].sql, call.out[Postgres].params)

\* C28 without filter conditions: the search alone is numbered $1..$n
C28_SearchAlone ==
    (call.done /\ call.op = "SearchQuery" /\ call.searchText # StrV(0) /\ call.columns > 0
       /\ PassedParams = <<>>) =>
        OneEach(call.out[Postgres].sql, call.out[Postgres].params)

C28_SearchAloneWitness ==
    /\ call.done /\ call.op = "SearchQuery" /\ call.searchText # StrV(0)
    /\ call.columns = 2 /\ PassedParams = <<>>
    /\ PlaceholderNumbers(call.out[Postgres].sql) = {1, 2}

\* C29: on Postgres PaginationQuery with limit > 0 appends "LIMIT $N", N the decimal
\* number of WHERE parameters + 1, and with offset > 0 "OFFSET $(N+1)", and appends
\* limit and then offset to the parameters, so that the placeholders of the final
\* query are $1..$k for the k returned parameters
C29_LimitOffsetPlaceholders ==
    (call.done /\ call.op = "PaginationQuery" /\ call.limit > 0) =>
        LET o == call.out[Postgres]
            N == Len(PassedParams) + 1
            tail == IF call.offset > 0
                    THEN <<SP, Txt("LIMIT"), SP, Dollar(N), SP, Txt("OFFSET"), SP, Dollar(N + 1)>>
                    ELSE <<SP, Txt("LIMIT"), SP, Dollar(N)>>
        IN /\ Len(o.sql) >= Len(tail)
           /\ Strip(SubSeq(o.sql, Len(o.sql) - Len(tail) + 1, Len(o.sql))) = tail
           /\ o.params = PassedParams
                           \o (IF call.offset > 0 THEN <<IntV(call.limit), IntV(call.offset)>>
                               ELSE <<IntV(call.limit)>>)
           /\ OneEach(o.sql, o.params)

\* the part of C29 that the code keeps: the parameters, and "LIMIT ?" and "OFFSET ?"
\* on MySQL and SQLite
C29_ParamsAndQuestionMarks ==
    (call.done /\ call.op = "PaginationQuery" /\ call.limit > 0) =>
        \A d \in Dialects :
            /\ call.out[d].params =
                  PassedParams \o (IF call.offset > 0
                                   THEN <<IntV(call.limit), IntV(call.offset)>>
                                   ELSE <<IntV(call.limit)>>)
            /\ d # Postgres =>
                  /\ Len(QuestionMarks(call.out[d].sql)) = Len(call.out[d].params)
                  /\ \A q \in 1..Len(call.out[d].params) :
                        QuestionMarks(call.out[d].sql)[q].v = call.out[d].params[q]

----------------------------------------------------------------------------
(* Filters on MySQL and SQLite *)

\* the operators that match without regard to case
CaseInsensitive ==
    {Op.ILike, Op.Contains, Op.Includes, Op.StartsWith, Op.EndsWith,
     Op.DoesNotContain, Op.DoesNotStartWith, Op.DoesNotEndWith}

LowerLike(field) ==
    <<Txt("LOWER("), Txt(field), Txt(")"), SP, Txt("LIKE"), SP, Txt("LOWER("), Qmark, Txt(")")>>

\* the builder holds no ILIKE, and one LOWER(field) LIKE LOWER(?) for every filter
\* of a case-insensitive operator
NoILike ==
    LET sql == Build(call.out.builder).sql
    IN /\ ~Contains(sql, "ILIKE")
       /\ CountSeq(Strip(sql), LowerLike("name")) =
            Cardinality({i \in 1..Len(call.filters) :
                           call.filters[i].Operator \in CaseInsensitive})

\* C30: for a MySQL or SQLite builder no sequence of filters applied through
\* ApplyFiltersToBuilder, whatever their operators, the negated forms of contains,
\* startsWith and endsWith included, renders the ILIKE keyword; every
\* case-insensitive match is rendered as LOWER(field) LIKE LOWER(?)
C30_NoILikeOffPostgres ==
    (call.done /\ call.dialect \in {MySQL, SQLite} /\ call.out.err = "") => NoILike

\* the same without the three negated operators
C30_PositiveForms ==
    (call.done /\ call.dialect \in {MySQL, SQLite} /\ call.out.err = ""
       /\ \A i \in 1..Len(call.filters) :
             call.filters[i].Operator \notin
                 {Op.DoesNotContain, Op.DoesNotStartWith, Op.DoesNotEndWith}) => NoILike

\* contains and startsWith applied on MySQL
C30_PositiveFormsWitness ==
    /\ call.done /\ call.dialect = MySQL /\ call.out.err = ""
    /\ Len(call.filters) = 2
    /\ call.filters[1].Operator = Op.Contains /\ call.filters[2].Operator = Op.StartsWith
    /\ CountSeq(Strip(Build(call.out.builder).sql), LowerLike("name")) = 2

====
